---- MODULE Spec2Model ----
(***************************************************************************)
(* A model of the setup-task GitHub Action (tenthirtyam/setup-task).       *)
(*                                                                         *)
(* One run of the action is a linear pipeline (main.ts run()): read the    *)
(* inputs, export the vars, probe for an existing install, try the cache,  *)
(* install from a release archive, save the cache, export the path and     *)
(* verify.  Every external collaborator (file system, process execution,   *)
(* HTTP, tool-cache, cache backend) answers nondeterministically.          *)
(*                                                                         *)
(* Strings are sequences of atoms: an atom is one character, or an opaque  *)
(* literal chunk (a fixed URL, a fixed message) none of whose characters   *)
(* the code looks at.  Paths use the atom "/" as separator.                *)
(***************************************************************************)
EXTENDS Integers, Sequences, FiniteSets, TLC

VARIABLES
  versionInput,     \* core.getInput('version')
  versionFromFile,  \* core.getInput('version-from-file')
  skipCacheInput,   \* core.getInput('skip-cache')
  githubTokenInput, \* core.getInput('github-token')
  varsInput,        \* core.getInput('vars')
  versionFile,      \* the file named by version-from-file: [readable, content]
  platform,         \* process.platform
  arch,             \* process.arch
  pc,               \* position of run()
  options,          \* TaskOptions returned by getTaskOptions
  taskAlreadyInstalled, \* result of isTaskInstalled: "unknown", "yes", "no"
  version,          \* installTask: the version used for the download
  latestTag,        \* tag_name of the release-index response, once received
  downloadUrl,      \* installTask: getDownloadUrl(version)
  extracted,        \* installTask: the extracted tree
  installedPath,    \* run: result of installTask
  cachedPath,       \* run: result of restoreCache
  restoreAnswer,    \* how the cache backend and the file system answered restoreCache
  saveAnswer,       \* how the file system and the cache backend answered saveCache
  taskPath,         \* run: the executable path that is exported
  whichStdout,      \* stdout of 'which task' in run's else branch
  fetchAnswer,      \* how the release index answered fetchLatestRelease
  verifyAnswer,     \* how 'which task' and 'task --version' answered verifyInstallation
  failure,          \* the stage that ended the run in FAILED, and the error it met
  calls,            \* every external call and signal of the run, in order
  disk,            \* the file system: the installed executable and the one in the cache directory
  store,            \* the cache backend: what is stored under each key
  saved,            \* per key, the content of the file handed to the last saveCache that stored it
  restored,         \* the last restoreCache: its version and the path it returned
  copying           \* a call of copyDirRecursive: its arguments, the file system, its queue

vars == <<versionInput, versionFromFile, skipCacheInput, githubTokenInput,
          varsInput, versionFile, platform, arch, pc, options,
          taskAlreadyInstalled, version, latestTag, downloadUrl, extracted,
          installedPath, cachedPath, restoreAnswer, saveAnswer, taskPath,
          whichStdout, fetchAnswer, verifyAnswer, failure, calls,
          disk, store, saved, restored, copying>>

inputVars == <<versionInput, versionFromFile, skipCacheInput, githubTokenInput,
               varsInput, versionFile, platform, arch>>

cacheVars == <<disk, store, saved, restored>>
\* what no step of a run touches
offRunVars == <<cacheVars, copying>>

(***************************************************************************)
(* Bounds of the model.                                                    *)
(***************************************************************************)
\* longest generated version-file content, in characters
MaxContentLen == 2
\* most entries of a generated extraction root
MaxEntries == 2
\* longest path, in components, the file system takes (ENAMETOOLONG beyond)
MaxPathLen == 5

(***************************************************************************)
(* Strings.                                                                *)
(***************************************************************************)
EMPTY == << >>
LATEST == <<"l", "a", "t", "e", "s", "t">>
TRUE_STR == <<"t", "r", "u", "e">>

\* White space and line terminators that String.prototype.trim removes.
WhiteSpace == {" ", "\t", "\n", "\r"}

RECURSIVE TrimStart(_)
TrimStart(s) ==
  IF s # EMPTY /\ Head(s) \in WhiteSpace THEN TrimStart(Tail(s)) ELSE s

RECURSIVE TrimEnd(_)
TrimEnd(s) ==
  IF s # EMPTY /\ s[Len(s)] \in WhiteSpace
    THEN TrimEnd(SubSeq(s, 1, Len(s) - 1))
    ELSE s

Trim(s) == TrimEnd(TrimStart(s))

StartsWith(s, p) == Len(s) >= Len(p) /\ SubSeq(s, 1, Len(p)) = p

EndsWith(s, p) ==
  Len(s) >= Len(p) /\ SubSeq(s, Len(s) - Len(p) + 1, Len(s)) = p

\* s.includes(p)
Includes(s, p) ==
  \E i \in 1..(Len(s) - Len(p) + 1) : SubSeq(s, i, i + Len(p) - 1) = p

\* All sequences over S of length at most n.
RECURSIVE SeqsUpTo(_, _)
SeqsUpTo(S, n) ==
  IF n = 0 THEN {EMPTY}
  ELSE LET shorter == SeqsUpTo(S, n - 1)
       IN shorter \cup {Append(s, x) : s \in shorter, x \in S}

(***************************************************************************)
(* constants.ts                                                            *)
(***************************************************************************)
RELEASES_API_URL == <<"https://api.github.com/repos/go-task/task/releases">>
RELEASES_URL == <<"https://github.com/go-task/task/releases/download">>
CACHE_DIR == <<"task-runner">>

OsKeys == {"win32", "darwin", "linux"}
OS_MAPPING(p) ==
  CASE p = "win32" -> <<"windows">>
    [] p = "darwin" -> <<"darwin">>
    [] p = "linux" -> <<"linux">>

ArchKeys == {"x64", "arm64", "arm"}
ARCH_MAPPING(a) ==
  CASE a = "x64" -> <<"amd64">>
    [] a = "arm64" -> <<"arm64">>
    [] a = "arm" -> <<"arm">>

EXE_EXTENSION == IF platform = "win32" THEN <<".exe">> ELSE EMPTY

(***************************************************************************)
(* The record of what the run did: one event per external call or signal.  *)
(* Every argument is a string (a sequence of atoms).                       *)
(***************************************************************************)
Ev3(op, arg, opt) == [op |-> op, arg |-> arg, opt |-> opt]
Ev(op, arg) == Ev3(op, arg, EMPTY)

Ops(h) == {h[i].op : i \in 1..Len(h)}
Called(op) == op \in Ops(calls)
Count(op) == Cardinality({i \in 1..Len(calls) : calls[i].op = op})
IndexOf(op) == CHOOSE i \in 1..Len(calls) : calls[i].op = op /\
                 \A j \in 1..(i - 1) : calls[j].op # op
ArgOf(op) == calls[IndexOf(op)].arg
Before(a, b) == Called(a) /\ Called(b) /\ IndexOf(a) < IndexOf(b)

(***************************************************************************)
(* Inputs of a run.                                                        *)
(***************************************************************************)
V3431 == <<"3", ".", "4", "3", ".", "1">>
VV3431 == <<"v">> \o V3431
V3420NL == <<"3", ".", "4", "2", ".", "0", "\n">>

\* core.getInput trims its value, so inputs carry no surrounding white space.
VersionInputs == {EMPTY, LATEST, V3431, VV3431}
VersionFromFileInputs == {EMPTY, <<".task-version">>}
SkipCacheInputs == {TRUE_STR, <<"f", "a", "l", "s", "e">>, <<"T", "r", "u", "e">>}
GithubTokenInputs == {EMPTY, <<"ghp_token">>}

ContentChars == {"3", "v", "\n", " "}
NoFile == [readable |-> FALSE, content |-> EMPTY]
FilesWith(contents) ==
  {NoFile} \cup {[readable |-> TRUE, content |-> c] : c \in contents}
\* the version files of a full run
RunFileContents == {EMPTY, <<"\n">>, V3420NL, <<" ", "v", "3">>}
\* the version files getTaskOptions is exercised on
GeneratedFileContents == SeqsUpTo(ContentChars, MaxContentLen) \cup {V3420NL}

Platforms == OsKeys \cup {"freebsd"}
Archs == ArchKeys \cup {"ia32"}

\* The 'vars' input: its raw lines (split on "\n", trimmed, blanks dropped) and
\* what yaml.load makes of it: a map or a list with its Object.entries, a
\* scalar, or a parse error.
FOO == <<"F", "O", "O">>
BAR == <<"b", "a", "r">>
NoVars == [kind |-> "empty", pairs |-> << >>, lines |-> << >>]
MapVars ==
  [kind |-> "map", pairs |-> << <<FOO, BAR>> >>,
   lines |-> << FOO \o <<":", " ">> \o BAR >>]
VarsInputs == {NoVars, MapVars}
BAZ == <<"B", "A", "Z">>
QUX == <<"q", "u", "x">>
\* The documented forms: yaml.load makes an array of the flow list
\* '[FOO=bar, BAZ=qux]' and of the block list, whose Object.entries are keyed
\* by index, and a string of plain key=value lines.
FlowListVars ==
  [kind |-> "list",
   pairs |-> << << <<"0">>, FOO \o <<"=">> \o BAR >>,
                << <<"1">>, BAZ \o <<"=">> \o QUX >> >>,
   lines |-> << <<"[">> \o FOO \o <<"=">> \o BAR \o <<",", " ">>
                  \o BAZ \o <<"=">> \o QUX \o <<"]">> >>]
BlockListVars ==
  [kind |-> "list",
   pairs |-> FlowListVars.pairs,
   lines |-> << <<"-", " ">> \o FOO \o <<"=">> \o BAR,
                <<"-", " ">> \o BAZ \o <<"=">> \o QUX >>]
LinesVars ==
  [kind |-> "scalar", pairs |-> << >>,
   lines |-> << FOO \o <<"=">> \o BAR, BAZ \o <<"=">> \o QUX >>]
DocumentedVars == {NoVars, MapVars, FlowListVars, BlockListVars, LinesVars}

NoOptions == [version |-> EMPTY, skipCache |-> FALSE, githubToken |-> EMPTY]
NoTree == [direct |-> FALSE, readdir |-> "ok", entries |-> << >>]
NoAnswer == [backend |-> "none", exists |-> FALSE, chmodOk |-> TRUE]
NoResponse == [kind |-> "none", tag |-> EMPTY]
NoVerify == [which |-> "none", exec |-> "none", output |-> EMPTY]
Fail(stage, cause) == [stage |-> stage, cause |-> cause]
NoFailure == Fail("none", EMPTY)
\* A file: its content and its mode; Absent where there is none.
File(content, mode) == [present |-> TRUE, content |-> content, mode |-> mode]
Absent == [present |-> FALSE, content |-> EMPTY, mode |-> EMPTY]
NoFiles == [installed |-> Absent, cached |-> Absent]
NoRestore == [done |-> FALSE, version |-> EMPTY, path |-> EMPTY]
NoCopy == [phase |-> "none"]

InitRun ==
  /\ pc = "start"
  /\ options = NoOptions
  /\ taskAlreadyInstalled = "unknown"
  /\ version = EMPTY
  /\ latestTag = EMPTY
  /\ downloadUrl = EMPTY
  /\ extracted = NoTree
  /\ installedPath = EMPTY
  /\ cachedPath = EMPTY
  /\ restoreAnswer = NoAnswer
  /\ saveAnswer = "none"
  /\ taskPath = EMPTY
  /\ whichStdout = EMPTY
  /\ fetchAnswer = NoResponse
  /\ verifyAnswer = NoVerify
  /\ failure = NoFailure
  /\ calls = << >>
  /\ disk = NoFiles
  /\ store = {}
  /\ saved = {}
  /\ restored = NoRestore
  /\ copying = NoCopy

InitInputs(files) ==
  /\ versionInput \in VersionInputs
  /\ versionFromFile \in VersionFromFileInputs
  /\ versionFile \in (IF versionFromFile = EMPTY THEN {NoFile} ELSE files)
  /\ skipCacheInput \in SkipCacheInputs
  /\ githubTokenInput \in GithubTokenInputs
  /\ varsInput \in VarsInputs
  /\ platform \in Platforms
  /\ arch \in Archs

Init == InitInputs(FilesWith(RunFileContents)) /\ InitRun

(***************************************************************************)
(* main.ts: getTaskOptions, processEnvVars and the head of run().          *)
(***************************************************************************)
MSG_CONFLICT ==
  <<"Both version and version-from-file inputs cannot be used together. Please specify only one.">>
ENOENT == <<"ENOENT: no such file or directory">>

\* A catch that logs the error and does not fail the action.
RunCatch_LogsOnly(errorMessage) ==
  Ev("error", <<"Task setup failed: ">> \o errorMessage)

\* run()'s catch: the one place that ends a run in FAILED.
RunCatch(errorMessage) ==
  Ev("setFailed", <<"Task setup failed: ">> \o errorMessage)

Conflict_DefaultOnly ==
  /\ versionFromFile # EMPTY
  /\ versionInput # EMPTY
  /\ versionInput = LATEST

\* The guard of the conflict error.
Conflict ==
  /\ versionFromFile # EMPTY
  /\ versionInput # EMPTY
  /\ versionInput # LATEST

FileVersion_TrimEnd(fileContent) ==
  IF fileContent # EMPTY THEN TrimEnd(fileContent) ELSE LATEST

\* The version taken from the file's content: 'if (fileContent) version = fileContent.trim()'.
FileVersion(fileContent) ==
  IF fileContent # EMPTY THEN Trim(fileContent) ELSE LATEST

OptionsVersion_StripsV ==
  IF versionFromFile # EMPTY THEN FileVersion(versionFile.content)
  ELSE IF versionInput # EMPTY
    THEN (IF StartsWith(versionInput, <<"v">>) THEN Tail(versionInput)
          ELSE versionInput)
  ELSE LATEST

\* The version getTaskOptions returns when it does not throw.
OptionsVersion ==
  IF versionFromFile # EMPTY THEN FileVersion(versionFile.content)
  ELSE IF versionInput # EMPTY THEN versionInput
  ELSE LATEST

SkipCache_AnyCase == skipCacheInput \in {TRUE_STR, <<"T", "r", "u", "e">>}

\* skipCache: logger.getInput('skip-cache') === 'true'.
SkipCache == skipCacheInput = TRUE_STR

\* getTaskOptions: [ok, value or error message, the error of the file read
\* inside the message, the calls it made].
GetTaskOptions ==
  IF Conflict
    THEN [ok |-> FALSE, error |-> MSG_CONFLICT, cause |-> EMPTY,
          value |-> NoOptions, calls |-> << >>]
  ELSE IF versionFromFile # EMPTY /\ ~versionFile.readable
    THEN [ok |-> FALSE,
          error |-> <<"Failed to read version from file ">> \o versionFromFile
                      \o <<": ">> \o ENOENT,
          cause |-> ENOENT,
          value |-> NoOptions,
          calls |-> << Ev("readFile", versionFromFile) >>]
  ELSE [ok |-> TRUE, error |-> EMPTY, cause |-> EMPTY,
        value |-> [version |-> OptionsVersion,
                   skipCache |-> SkipCache,
                   githubToken |-> githubTokenInput],
        calls |-> IF versionFromFile # EMPTY
                    THEN << Ev("readFile", versionFromFile) >>
                    ELSE << >>]

\* One exported variable: process.env[key] = value and core.exportVariable.
ExportVar(key, value) == Ev3("exportVariable", Trim(key), Trim(value))

\* line.match(/^([^=]+)=(.*)$/): the position of the first "=", 0 if no match
\* (no "=" at all, or nothing before the first one).
EqualsAt(line) ==
  LET at == {i \in 1..Len(line) : line[i] = "="}
      first == CHOOSE i \in at : \A j \in at : i <= j
  IN IF at = {} THEN 0 ELSE IF first = 1 THEN 0 ELSE first

KeyValueLine(line) ==
  IF EqualsAt(line) = 0
    THEN Ev("warning", <<"Invalid variable format: ">> \o line)
    ELSE ExportVar(SubSeq(line, 1, EqualsAt(line) - 1),
                   SubSeq(line, EqualsAt(line) + 1, Len(line)))

\* processEnvVars: the calls it makes.
ProcessEnvVars(input) ==
  IF input.kind = "empty" THEN << >>
  ELSE IF input.kind \in {"map", "list"}
    THEN [i \in 1..Len(input.pairs) |->
            IF input.pairs[i][1] # EMPTY
              THEN ExportVar(input.pairs[i][1], input.pairs[i][2])
              ELSE Ev("warning", <<"Invalid environment variable format: ">>)]
  ELSE [i \in 1..Len(input.lines) |-> KeyValueLine(input.lines[i])]

\* run() up to the probe: getTaskOptions, then processEnvVars.
Setup ==
  /\ pc = "start"
  /\ LET r == GetTaskOptions IN
       IF r.ok
         THEN /\ options' = r.value
              /\ calls' = calls \o r.calls \o ProcessEnvVars(varsInput)
              /\ pc' = "probe"
              /\ failure' = failure
         ELSE /\ options' = options
              /\ calls' = calls \o r.calls \o << RunCatch(r.error) >>
              /\ pc' = "FAILED"
              /\ failure' = Fail("options", r.cause)
  /\ UNCHANGED <<inputVars, offRunVars, taskAlreadyInstalled, version, latestTag,
                 downloadUrl, extracted, installedPath, cachedPath,
                 restoreAnswer, saveAnswer, taskPath, whichStdout,
                 fetchAnswer, verifyAnswer>>

(***************************************************************************)
(* Paths (path.join, path.dirname of the posix flavour).                   *)
(***************************************************************************)
Join(a, b) == a \o <<"/">> \o b

Dirname(p) ==
  LET body == {i \in 1..Len(p) : p[i] # "/"}
      e == CHOOSE i \in body : \A j \in body : j <= i
      seps == {i \in 2..(e - 1) : p[i] = "/"}
      k == CHOOSE i \in seps : \A j \in seps : j <= i
  IN IF p = EMPTY THEN <<".">>
     ELSE IF body = {} \/ seps = {}
       THEN (IF p[1] = "/" THEN <<"/">> ELSE <<".">>)
     ELSE SubSeq(p, 1, k - 1)

TMPDIR == <<"/", "tmp">>
\* utils.ts getCacheDirectory
getCacheDirectory == Join(TMPDIR, CACHE_DIR)
\* cache.ts getTaskExecutableName
getTaskExecutableName ==
  <<"task">> \o (IF platform = "win32" THEN <<".exe">> ELSE EMPTY)
\* cache.ts getCacheKey
getCacheKey(v) == <<"task-runner-">> \o v \o <<"-", platform, "-", arch>>

ExportPath_OutputFirst(path) ==
  << Ev3("setOutput", <<"task-path">>, path), Ev("addPath", Dirname(path)) >>

\* run(): 'Add to PATH' and 'Set output for the action'.
ExportPath(path) ==
  << Ev("addPath", Dirname(path)), Ev3("setOutput", <<"task-path">>, path) >>

(***************************************************************************)
(* main.ts isTaskInstalled                                                 *)
(***************************************************************************)
AfterProbe_IgnoresFound(found) ==
  IF ~options.skipCache THEN "restore" ELSE "install"

\* run(): where it goes once the probe has answered.
AfterProbe(found) ==
  IF found THEN "which"
  ELSE IF ~options.skipCache THEN "restore"
  ELSE "install"

IsTaskInstalled ==
  /\ pc = "probe"
  /\ \E found \in BOOLEAN :
       /\ taskAlreadyInstalled' = (IF found THEN "yes" ELSE "no")
       /\ calls' = calls \o << Ev3("exec", <<"which">>, <<"task">>) >>
       /\ pc' = AfterProbe(found)
  /\ UNCHANGED <<inputVars, offRunVars, options, version, latestTag, downloadUrl,
                 extracted, installedPath, cachedPath, restoreAnswer,
                 saveAnswer, taskPath, whichStdout, fetchAnswer,
                 verifyAnswer, failure>>

(***************************************************************************)
(* cache.ts restoreCache                                                   *)
(***************************************************************************)
BackendRestoreOutcomes == {"miss", "hit", "throws"}
CACHE_ERR == <<"cache service unavailable">>
CHMOD_ERR == <<"EPERM: operation not permitted, chmod">>

\* restoreCache without the existsSync check.
restoreCache_NoExistsCheck(v, backend, exists, chmodOk) ==
  LET cacheDir == getCacheDirectory
      path == Join(cacheDir, getTaskExecutableName)
      entry == << Ev("restoreCache", v),
                  Ev3("cache.restoreCache", cacheDir, getCacheKey(v)) >>
  IN IF backend = "hit"
       THEN [path |-> path, threw |-> EMPTY, calls |-> entry]
       ELSE [path |-> EMPTY, threw |-> EMPTY, calls |-> entry]

\* restoreCache without the chmod.
restoreCache_NoChmod(v, backend, exists, chmodOk) ==
  LET cacheDir == getCacheDirectory
      path == Join(cacheDir, getTaskExecutableName)
      entry == << Ev("restoreCache", v),
                  Ev3("cache.restoreCache", cacheDir, getCacheKey(v)) >>
  IN IF backend = "throws"
       THEN [path |-> EMPTY, threw |-> EMPTY,
             calls |-> entry \o << Ev("warning", <<"Failed to restore from cache: ">>
                                                   \o CACHE_ERR) >>]
     ELSE IF backend = "miss"
       THEN [path |-> EMPTY, threw |-> EMPTY, calls |-> entry]
     ELSE IF ~exists
       THEN [path |-> EMPTY, threw |-> EMPTY,
             calls |-> entry \o << Ev("exists", path), Ev("warning",
                         <<"Cache was hit but Task was not found at ">> \o path) >>]
     ELSE [path |-> path, threw |-> EMPTY, calls |-> entry \o << Ev("exists", path) >>]

\* restoreCache(v) when the backend answers `backend`, the executable is or is
\* not in the cache directory, and chmod succeeds or throws: the path returned,
\* the calls made, and the error thrown to the caller (EMPTY: none, as the try
\* block covers every call).
restoreCache(v, backend, exists, chmodOk) ==
  LET cacheDir == getCacheDirectory
      cacheKey == getCacheKey(v)
      path == Join(cacheDir, getTaskExecutableName)
      entry == << Ev("restoreCache", v), Ev3("cache.restoreCache", cacheDir, cacheKey) >>
      check == << Ev("exists", path) >>
      chmod == << Ev3("chmod", path, <<"755">>) >>
      caught(msg) == << Ev("warning", <<"Failed to restore from cache: ">> \o msg) >>
  IN IF backend = "throws"
       THEN [path |-> EMPTY, threw |-> EMPTY, calls |-> entry \o caught(CACHE_ERR)]
     ELSE IF backend = "miss"
       THEN [path |-> EMPTY, threw |-> EMPTY, calls |-> entry]
     ELSE IF ~exists
       THEN [path |-> EMPTY, threw |-> EMPTY,
             calls |-> entry \o check \o << Ev("warning",
                         <<"Cache was hit but Task was not found at ">> \o path) >>]
     ELSE IF platform # "win32"
       THEN (IF chmodOk
               THEN [path |-> path, threw |-> EMPTY,
                     calls |-> entry \o check \o chmod]
               ELSE [path |-> EMPTY, threw |-> EMPTY,
                     calls |-> entry \o check \o chmod \o caught(CHMOD_ERR)])
     ELSE [path |-> path, threw |-> EMPTY, calls |-> entry \o check]

\* The answers restoreCache can meet: the executable is looked for on a hit
\* only, and chmod is called on a non-Windows platform only.
RestoreAnswers ==
  {a \in [backend : BackendRestoreOutcomes, exists : BOOLEAN, chmodOk : BOOLEAN] :
     /\ a.exists => a.backend = "hit"
     /\ ~a.chmodOk => a.exists /\ platform # "win32"}

\* run() going on to installTask whatever restoreCache returned.
RestoreCache_AlwaysInstalls ==
  /\ pc = "restore"
  /\ \E a \in RestoreAnswers :
       LET r == restoreCache(options.version, a.backend, a.exists, a.chmodOk) IN
         /\ restoreAnswer' = a
         /\ cachedPath' = r.path
         /\ calls' = calls \o r.calls
         /\ pc' = "install"
  /\ UNCHANGED <<inputVars, offRunVars, options, taskAlreadyInstalled, version,
                 latestTag, downloadUrl, extracted, installedPath, saveAnswer,
                 whichStdout, fetchAnswer, verifyAnswer, taskPath, failure>>

\* run(): restoreCache(options.version); a restored path is exported.
RestoreCache ==
  /\ pc = "restore"
  /\ \E a \in RestoreAnswers :
       LET r == restoreCache(options.version, a.backend, a.exists, a.chmodOk) IN
         /\ restoreAnswer' = a
         /\ IF r.threw # EMPTY
              THEN /\ calls' = calls \o r.calls \o << RunCatch(r.threw) >>
                   /\ pc' = "FAILED"
                   /\ failure' = Fail("restore", r.threw)
                   /\ UNCHANGED <<cachedPath, taskPath>>
            ELSE IF r.path # EMPTY
              THEN /\ cachedPath' = r.path
                   /\ taskPath' = r.path
                   /\ calls' = calls \o r.calls \o ExportPath(r.path)
                   /\ pc' = "verify"
                   /\ failure' = failure
            ELSE /\ cachedPath' = r.path
                 /\ taskPath' = taskPath
                 /\ calls' = calls \o r.calls
                 /\ pc' = "install"
                 /\ failure' = failure
  /\ UNCHANGED <<inputVars, offRunVars, options, taskAlreadyInstalled, version,
                 latestTag, downloadUrl, extracted, installedPath, saveAnswer,
                 whichStdout, fetchAnswer, verifyAnswer>>

(***************************************************************************)
(* utils.ts cleanVersionFromTag, fetchLatestRelease, logAndFail            *)
(***************************************************************************)
RECURSIVE cleanVersionFromTag_AllVs(_)
cleanVersionFromTag_AllVs(tagName) ==
  IF StartsWith(tagName, <<"v">>)
    THEN cleanVersionFromTag_AllVs(Tail(tagName))
    ELSE tagName

cleanVersionFromTag(tagName) ==
  IF StartsWith(tagName, <<"v">>) THEN Tail(tagName) ELSE tagName

\* What the release index may answer: a transport failure, a response that is
\* not ok, a body that is not JSON, or a JSON object whose tag_name is `tag`
\* (EMPTY: no tag_name, or an empty one).
Tags == {EMPTY, V3431, VV3431, <<"v", "v", "3">>}
Responses ==
  {[kind |-> k, tag |-> EMPTY] : k \in {"transport", "http", "badjson"}}
    \cup {[kind |-> "json", tag |-> t] : t \in Tags}

\* The headers of the request.
FetchHeaders(githubToken) ==
  IF githubToken # EMPTY
    THEN <<"Authorization", ": ", "Bearer ">> \o githubToken
    ELSE EMPTY

FetchCause(response) ==
  CASE response.kind = "transport" -> <<"fetch failed">>
    [] response.kind = "http" -> <<"HTTP Error: ", "403", " - ", "rate limit exceeded">>
    [] response.kind = "badjson" -> <<"Unexpected token < in JSON at position 0">>
    [] OTHER -> <<"Invalid response format or no releases found">>

\* fetchLatestRelease rethrowing the cause as it is.
fetchLatestRelease_Unwrapped(githubToken, response) ==
  LET call == << Ev3("fetch", RELEASES_API_URL \o <<"/latest">>,
                     FetchHeaders(githubToken)) >>
  IN IF response.kind = "json" /\ response.tag # EMPTY
       THEN [ok |-> TRUE, value |-> cleanVersionFromTag(response.tag),
             error |-> EMPTY, calls |-> call]
       ELSE [ok |-> FALSE, value |-> EMPTY, error |-> FetchCause(response),
             calls |-> call]

\* fetchLatestRelease falling back to a fixed version when the lookup fails.
fetchLatestRelease_DefaultOnFailure(githubToken, response) ==
  LET call == << Ev3("fetch", RELEASES_API_URL \o <<"/latest">>,
                     FetchHeaders(githubToken)) >>
  IN IF response.kind = "json" /\ response.tag # EMPTY
       THEN [ok |-> TRUE, value |-> cleanVersionFromTag(response.tag),
             error |-> EMPTY, calls |-> call]
       ELSE [ok |-> TRUE, value |-> V3431, error |-> EMPTY, calls |-> call]

fetchLatestRelease(githubToken, response) ==
  LET call == << Ev3("fetch", RELEASES_API_URL \o <<"/latest">>,
                     FetchHeaders(githubToken)) >>
  IN IF response.kind = "json" /\ response.tag # EMPTY
       THEN [ok |-> TRUE, value |-> cleanVersionFromTag(response.tag),
             error |-> EMPTY, calls |-> call]
       ELSE [ok |-> FALSE, value |-> EMPTY,
             error |-> <<"Failed to fetch release information from ">>
                         \o RELEASES_API_URL \o <<": ">> \o FetchCause(response),
             calls |-> call]

\* logAndFail: core.setFailed(message), then throw new Error(message).
logAndFail(message) == Ev("setFailed", message)

(***************************************************************************)
(* installer.ts                                                            *)
(***************************************************************************)
ZIP == <<"z", "i", "p">>
TAR_GZ == <<"t", "a", "r", ".", "g", "z">>

\* getPlatform and getArchitecture: the mapped name, or the logAndFail message.
getPlatform ==
  IF platform \in OsKeys
    THEN [ok |-> TRUE, value |-> OS_MAPPING(platform), error |-> EMPTY]
    ELSE [ok |-> FALSE, value |-> EMPTY,
          error |-> <<"Unsupported platform: ", platform>>]

getArchitecture ==
  IF arch \in ArchKeys
    THEN [ok |-> TRUE, value |-> ARCH_MAPPING(arch), error |-> EMPTY]
    ELSE [ok |-> FALSE, value |-> EMPTY,
          error |-> <<"Unsupported architecture: ", arch>>]

Extension_ByMappedName == IF platform = "windows" THEN ZIP ELSE TAR_GZ

\* The archive extension of the current platform.
Extension == IF platform = "win32" THEN ZIP ELSE TAR_GZ

getDownloadUrl(v) ==
  IF ~getPlatform.ok
    THEN [ok |-> FALSE, value |-> EMPTY, error |-> getPlatform.error,
          calls |-> << logAndFail(getPlatform.error) >>]
  ELSE IF ~getArchitecture.ok
    THEN [ok |-> FALSE, value |-> EMPTY, error |-> getArchitecture.error,
          calls |-> << logAndFail(getArchitecture.error) >>]
  ELSE [ok |-> TRUE, error |-> EMPTY, calls |-> << >>,
        value |-> RELEASES_URL \o <<"/", "v">> \o v \o <<"/", "task_">>
                    \o getPlatform.value \o <<"_">> \o getArchitecture.value
                    \o <<".">> \o Extension]

\* installTask's catch, then run()'s catch: the install failed with errorMessage.
InstallCatch(errorMessage) ==
  LET terminated == <<"Installation process terminated. Error: ">> \o errorMessage
  IN << Ev("error", <<"Task installation failed. Error: ">> \o errorMessage),
        logAndFail(terminated),
        RunCatch(terminated) >>

MSG_NO_LATEST ==
  <<"Unable to retrieve the latest version. Please specify a specific version instead of 'latest'.">>

\* installTask up to the download: the version, then the download URL.
InstallResolve ==
  /\ pc = "install"
  /\ \E response \in Responses :
       LET latest == options.version = LATEST
           f == fetchLatestRelease(options.githubToken, response)
           fcalls == IF latest THEN f.calls ELSE << >>
           v == IF latest THEN f.value ELSE options.version
           u == getDownloadUrl(v)
       IN IF latest /\ ~f.ok
            THEN /\ calls' = calls \o fcalls
                      \o << Ev("error", <<"Failed to retrieve the latest version: ">>
                                         \o f.error) >>
                      \o InstallCatch(MSG_NO_LATEST)
                 /\ pc' = "FAILED"
                 /\ fetchAnswer' = response
                 /\ failure' = Fail("lookup", FetchCause(response))
                 /\ UNCHANGED <<version, latestTag, downloadUrl>>
          ELSE /\ version' = v
               /\ latestTag' = IF latest THEN response.tag ELSE latestTag
               /\ fetchAnswer' = IF latest THEN response ELSE fetchAnswer
               /\ IF u.ok
                    THEN /\ downloadUrl' = u.value
                         /\ calls' = calls \o fcalls
                         /\ pc' = "download"
                         /\ failure' = failure
                    ELSE /\ downloadUrl' = downloadUrl
                         /\ calls' = calls \o fcalls \o u.calls \o InstallCatch(u.error)
                         /\ pc' = "FAILED"
                         /\ failure' = Fail("platform", EMPTY)
  /\ UNCHANGED <<inputVars, offRunVars, options, taskAlreadyInstalled, extracted,
                 installedPath, cachedPath, restoreAnswer, saveAnswer,
                 taskPath, whichStdout, verifyAnswer>>

DOWNLOAD_ERR == <<"Unexpected HTTP response: 404">>
DOWNLOADED == <<"/", "runner", "/", "temp", "/", "archive">>

\* installTask downloading again after a failed download.
InstallDownload_Retries ==
  /\ pc = "download"
  /\ calls' = calls \o << Ev("downloadTool", downloadUrl) >>
  /\ \E ok \in BOOLEAN : pc' = IF ok THEN "extract" ELSE "download"
  /\ UNCHANGED <<inputVars, offRunVars, options, taskAlreadyInstalled, version,
                 latestTag, downloadUrl, extracted, installedPath, cachedPath,
                 restoreAnswer, saveAnswer, taskPath, whichStdout,
                 fetchAnswer, verifyAnswer, failure>>

\* installTask: toolCache.downloadTool(downloadUrl).
InstallDownload ==
  /\ pc = "download"
  /\ \E ok \in BOOLEAN :
       IF ok
         THEN /\ calls' = calls \o << Ev("downloadTool", downloadUrl) >>
              /\ pc' = "extract"
              /\ failure' = failure
         ELSE /\ calls' = calls \o << Ev("downloadTool", downloadUrl) >>
                            \o InstallCatch(DOWNLOAD_ERR)
              /\ pc' = "FAILED"
              /\ failure' = Fail("download", DOWNLOAD_ERR)
  /\ UNCHANGED <<inputVars, offRunVars, options, taskAlreadyInstalled, version,
                 latestTag, downloadUrl, extracted, installedPath, cachedPath,
                 restoreAnswer, saveAnswer, taskPath, whichStdout,
                 fetchAnswer, verifyAnswer>>

(***************************************************************************)
(* installer.ts findExecutable.  An extracted tree: whether the executable *)
(* lies in the root, whether readdir of the root throws, and the root's    *)
(* entries in enumeration order, each one of                               *)
(*   "file"       a file that is not the executable                        *)
(*   "dirExe"     a directory that holds the executable                    *)
(*   "dir"        a directory without it                                   *)
(*   "dirDeep"    a directory that holds it only further down              *)
(*   "statThrows" an entry statSync throws on                              *)
(***************************************************************************)
EntryKinds == {"file", "dirExe", "dir", "dirDeep", "statThrows"}
EXTRACTED == <<"/", "runner", "/", "temp", "/", "extracted">>
EntryName(i) == <<"entry", ToString(i)>>
ExecutableName == <<"task">> \o EXE_EXTENSION
READDIR_ERR == <<"ENOTDIR: not a directory, scandir">>
STAT_ERR == <<"ENOENT: no such file or directory, stat">>

FindCaught(extractedPath, msg) ==
  << Ev("warning", <<"Error encountered while searching for executable. Error: ">> \o msg),
     Ev("warning", <<"Executable not found: ">> \o ExecutableName
                     \o <<" in directory: ">> \o extractedPath) >>

\* The for loop going on to the next entry when statSync throws.
RECURSIVE FindInEntries_SkipsFailing(_, _, _)
FindInEntries_SkipsFailing(extractedPath, entries, i) ==
  IF i > Len(entries)
    THEN [path |-> EMPTY,
          calls |-> << Ev("warning", <<"Executable not found: ">> \o ExecutableName
                                       \o <<" in directory: ">> \o extractedPath) >>]
  ELSE LET entryPath == Join(extractedPath, EntryName(i))
           stat == << Ev("stat", entryPath) >>
           rest == FindInEntries_SkipsFailing(extractedPath, entries, i + 1)
       IN CASE entries[i] \in {"statThrows", "file"} ->
                 [path |-> rest.path, calls |-> stat \o rest.calls]
            [] entries[i] = "dirExe" ->
                 [path |-> Join(entryPath, ExecutableName),
                  calls |-> stat \o << Ev("exists", Join(entryPath, ExecutableName)) >>]
            [] OTHER ->
                 [path |-> rest.path,
                  calls |-> stat \o << Ev("exists", Join(entryPath, ExecutableName)) >>
                              \o rest.calls]

\* The for loop of findExecutable from entry i on.
RECURSIVE FindInEntries(_, _, _)
FindInEntries(extractedPath, entries, i) ==
  IF i > Len(entries)
    THEN [path |-> EMPTY,
          calls |-> << Ev("warning", <<"Executable not found: ">> \o ExecutableName
                                       \o <<" in directory: ">> \o extractedPath) >>]
  ELSE LET entryPath == Join(extractedPath, EntryName(i))
           stat == << Ev("stat", entryPath) >>
           rest == FindInEntries(extractedPath, entries, i + 1)
       IN CASE entries[i] = "statThrows" ->
                 [path |-> EMPTY, calls |-> stat \o FindCaught(extractedPath, STAT_ERR)]
            [] entries[i] = "file" ->
                 [path |-> rest.path, calls |-> stat \o rest.calls]
            [] entries[i] = "dirExe" ->
                 [path |-> Join(entryPath, ExecutableName),
                  calls |-> stat \o << Ev("exists", Join(entryPath, ExecutableName)) >>]
            [] OTHER ->
                 [path |-> rest.path,
                  calls |-> stat \o << Ev("exists", Join(entryPath, ExecutableName)) >>
                              \o rest.calls]

\* findExecutable preferring a nested copy to the one in the root.
findExecutable_NestedFirst(extractedPath, tree) ==
  LET direct == << Ev("exists", Join(extractedPath, ExecutableName)) >>
      found == FindInEntries(extractedPath, tree.entries, 1)
  IN IF tree.readdir = "ok" /\ found.path # EMPTY
       THEN [path |-> found.path,
             calls |-> << Ev("readdir", extractedPath) >> \o found.calls]
     ELSE IF tree.direct
       THEN [path |-> Join(extractedPath, ExecutableName), calls |-> direct]
     ELSE [path |-> EMPTY, calls |-> direct]

findExecutable(extractedPath, tree) ==
  LET direct == << Ev("exists", Join(extractedPath, ExecutableName)) >>
      found == FindInEntries(extractedPath, tree.entries, 1)
  IN IF tree.direct
       THEN [path |-> Join(extractedPath, ExecutableName), calls |-> direct]
     ELSE IF tree.readdir = "throws"
       THEN [path |-> EMPTY,
             calls |-> direct \o << Ev("readdir", extractedPath) >>
                         \o FindCaught(extractedPath, READDIR_ERR)]
     ELSE [path |-> found.path,
           calls |-> direct \o << Ev("readdir", extractedPath) >> \o found.calls]

Tree(direct, readdir, entries) ==
  [direct |-> direct, readdir |-> readdir, entries |-> entries]
\* the extracted trees of a full run
RunTrees ==
  { Tree(TRUE, "ok", << >>),
    Tree(FALSE, "ok", <<"dirExe">>),
    Tree(FALSE, "ok", <<"file", "dir">>),
    Tree(FALSE, "throws", << >>) }

\* the extracted trees findExecutable is exercised on: every root of at most
\* MaxEntries entries (none is known of a root readdir throws on)
GeneratedTrees ==
  {Tree(d, "ok", es) : d \in BOOLEAN, es \in SeqsUpTo(EntryKinds, MaxEntries)}
    \cup {Tree(d, "throws", << >>) : d \in BOOLEAN}

EXTRACT_ERR == <<"The process '/usr/bin/tar' failed with exit code 2">>

Extractor_AlwaysTar(url) == "extractTar"

\* The extractor installTask picks for a URL: by its extension.
Extractor(url) ==
  IF EndsWith(url, <<".">> \o ZIP) THEN "extractZip"
  ELSE IF EndsWith(url, <<".">> \o TAR_GZ) THEN "extractTar"
  ELSE "none"

\* installTask from the extraction on: extract, findExecutable, chmod, when
\* the archive holds one of `trees`.
InstallExtractOn(trees) ==
  /\ pc = "extract"
  /\ \E ok \in BOOLEAN, tree \in trees, chmodOk \in BOOLEAN :
       LET extractor == Extractor(downloadUrl)
           call == << Ev(extractor, DOWNLOADED) >>
           f == findExecutable(EXTRACTED, tree)
           chmod == IF platform # "win32"
                      THEN << Ev3("chmod", f.path, <<"755">>) >>
                      ELSE << >>
           done == IF options.skipCache THEN ExportPath(f.path) ELSE << >>
       IN IF extractor = "none"
            THEN /\ calls' = calls \o InstallCatch(
                        <<"Extraction failed. Error: ">>
                          \o <<"Unsupported archive format encountered: ">>
                          \o downloadUrl)
                 /\ pc' = "FAILED"
                 /\ failure' = Fail("extraction", EMPTY)
                 /\ UNCHANGED <<extracted, installedPath, taskPath>>
          ELSE IF ~ok
            THEN /\ calls' = calls \o call
                        \o InstallCatch(<<"Extraction failed. Error: ">> \o EXTRACT_ERR)
                 /\ pc' = "FAILED"
                 /\ failure' = Fail("extraction", EXTRACT_ERR)
                 /\ UNCHANGED <<extracted, installedPath, taskPath>>
          ELSE IF f.path = EMPTY
            THEN /\ extracted' = tree
                 /\ calls' = calls \o call \o f.calls
                        \o InstallCatch(<<"Executable not found in extracted directory: ">>
                                          \o EXTRACTED)
                 /\ pc' = "FAILED"
                 /\ failure' = Fail("notfound", EMPTY)
                 /\ UNCHANGED <<installedPath, taskPath>>
          ELSE IF platform # "win32" /\ ~chmodOk
            THEN /\ extracted' = tree
                 /\ calls' = calls \o call \o f.calls \o chmod \o InstallCatch(CHMOD_ERR)
                 /\ pc' = "FAILED"
                 /\ failure' = Fail("chmod", CHMOD_ERR)
                 /\ UNCHANGED <<installedPath, taskPath>>
          ELSE /\ extracted' = tree
               /\ installedPath' = f.path
               /\ taskPath' = IF options.skipCache THEN f.path ELSE taskPath
               /\ calls' = calls \o call \o f.calls \o chmod \o done
               /\ pc' = IF options.skipCache THEN "verify" ELSE "save"
               /\ failure' = failure
  /\ UNCHANGED <<inputVars, offRunVars, options, taskAlreadyInstalled, version,
                 latestTag, downloadUrl, cachedPath, restoreAnswer, saveAnswer,
                 whichStdout, fetchAnswer, verifyAnswer>>

InstallExtract == InstallExtractOn(RunTrees)
InstallExtractGenerated == InstallExtractOn(GeneratedTrees)

(***************************************************************************)
(* cache.ts saveCache                                                      *)
(***************************************************************************)
SaveOutcomes == {"ok", "mkdirThrows", "copyThrows", "backendThrows"}
MKDIR_ERR == <<"EACCES: permission denied, mkdir">>
COPY_ERR == <<"ENOSPC: no space left on device, copyfile">>

\* saveCache with the backend save outside the try block.
saveCache_BackendUncaught(path, v, outcome) ==
  LET cacheDir == getCacheDirectory
      calls0 == << Ev3("saveCache", path, v), Ev("mkdir", cacheDir),
                   Ev3("copyFile", path, Join(cacheDir, getTaskExecutableName)),
                   Ev3("cache.saveCache", cacheDir, getCacheKey(v)) >>
  IN IF outcome = "backendThrows"
       THEN [threw |-> CACHE_ERR, calls |-> calls0]
       ELSE [threw |-> EMPTY, calls |-> calls0]

\* saveCache(path, v) when the first thing to fail, if any, is `outcome`: the
\* calls made, and the error thrown to the caller (EMPTY: none, as the try
\* block covers every call).
saveCache(path, v, outcome) ==
  LET cacheDir == getCacheDirectory
      cacheKey == getCacheKey(v)
      destPath == Join(cacheDir, getTaskExecutableName)
      entry == << Ev3("saveCache", path, v) >>
      mkdir == << Ev("mkdir", cacheDir) >>
      copy == IF path # destPath THEN << Ev3("copyFile", path, destPath) >> ELSE << >>
      save == << Ev3("cache.saveCache", cacheDir, cacheKey) >>
      caught(msg) ==
        << Ev("warning", <<"Failed to save Task to cache: ">> \o msg),
           Ev("warning", <<"Failed to save cache: ">> \o msg) >>
  IN CASE outcome = "mkdirThrows" ->
            [threw |-> EMPTY, calls |-> entry \o mkdir \o caught(MKDIR_ERR)]
       [] outcome = "copyThrows" /\ path # destPath ->
            [threw |-> EMPTY, calls |-> entry \o mkdir \o copy \o caught(COPY_ERR)]
       [] outcome = "backendThrows" ->
            [threw |-> EMPTY,
             calls |-> entry \o mkdir \o copy \o save \o caught(CACHE_ERR)]
       [] OTHER ->
            [threw |-> EMPTY,
             calls |-> entry \o mkdir \o copy \o save
                         \o << Ev("info", <<"Task ">> \o v \o <<" saved to cache">>) >>]

\* run(): saveCache(installedPath, options.version), then the path is exported.
SaveCache ==
  /\ pc = "save"
  /\ \E outcome \in SaveOutcomes :
       LET r == saveCache(installedPath, options.version, outcome) IN
         /\ saveAnswer' = outcome
         /\ IF r.threw # EMPTY
              THEN /\ calls' = calls \o r.calls \o << RunCatch(r.threw) >>
                   /\ taskPath' = taskPath
                   /\ pc' = "FAILED"
                   /\ failure' = Fail("save", r.threw)
              ELSE /\ calls' = calls \o r.calls \o ExportPath(installedPath)
                   /\ taskPath' = installedPath
                   /\ pc' = "verify"
                   /\ failure' = failure
  /\ UNCHANGED <<inputVars, offRunVars, options, taskAlreadyInstalled, version,
                 latestTag, downloadUrl, extracted, installedPath, cachedPath,
                 restoreAnswer, whichStdout, fetchAnswer, verifyAnswer>>

(***************************************************************************)
(* main.ts run(): the branch of an existing install, and verifyInstallation *)
(***************************************************************************)
WHICH_ERR == <<"The process '/usr/bin/which' failed with exit code 1">>
EXEC_ERR == <<"The process 'task' failed with exit code 126">>
USR_BIN_TASK == <<"/", "usr", "/", "bin", "/", "task">>
WhichOutputs == {USR_BIN_TASK \o <<"\n">>, <<" ">> \o USR_BIN_TASK}

\* run(): 'which task' again for the path of the existing install.
WhichPath ==
  /\ pc = "which"
  /\ \/ \E stdout \in WhichOutputs :
          /\ whichStdout' = stdout
          /\ taskPath' = Trim(stdout)
          /\ calls' = calls \o << Ev3("getExecOutput", <<"which">>, <<"task">>) >>
                         \o ExportPath(Trim(stdout))
          /\ pc' = "verify"
          /\ failure' = failure
     \/ /\ calls' = calls \o << Ev3("getExecOutput", <<"which">>, <<"task">>),
                                 RunCatch(WHICH_ERR) >>
        /\ pc' = "FAILED"
        /\ failure' = Fail("which", WHICH_ERR)
        /\ UNCHANGED <<whichStdout, taskPath>>
  /\ UNCHANGED <<inputVars, offRunVars, options, taskAlreadyInstalled, version,
                 latestTag, downloadUrl, extracted, installedPath, cachedPath,
                 restoreAnswer, saveAnswer, fetchAnswer, verifyAnswer>>

VersionOutputs == {EMPTY, <<"\n">>, <<"Task version: v3.43.1", "\n">>}
MSG_NO_VERSION ==
  <<"Task verification failed: ", "No version returned", " from Task">>
MSG_SUCCESS == <<"Task setup completed successfully!">>

\* verifyInstallation's catch, then run()'s catch.
VerifyCatch(errorMessage) ==
  << Ev("error", <<"Task verification error: ">> \o errorMessage),
     RunCatch(<<"Task verification failed: ">> \o errorMessage) >>

OutputIsEmpty_NoTrim(output) == output = EMPTY

\* verifyInstallation: 'output.trim().length === 0'.
OutputIsEmpty(output) == Trim(output) = EMPTY

\* verifyInstallation, and the end of run().
VerifyInstallation ==
  /\ pc = "verify"
  /\ \E whichOk \in BOOLEAN, execOk \in BOOLEAN, output \in VersionOutputs :
       LET which == << Ev3("getExecOutput", <<"which">>, <<"task">>) >>
           exec == << Ev3("exec", <<"task">>, <<"--version">>) >>
       IN IF ~whichOk
            THEN /\ calls' = calls \o which \o VerifyCatch(WHICH_ERR)
                 /\ pc' = "FAILED"
                 /\ verifyAnswer' = [which |-> "throws", exec |-> "none",
                                      output |-> EMPTY]
                 /\ failure' = Fail("verification", WHICH_ERR)
          ELSE IF ~execOk
            THEN /\ calls' = calls \o which \o exec \o VerifyCatch(EXEC_ERR)
                 /\ pc' = "FAILED"
                 /\ verifyAnswer' = [which |-> "ok", exec |-> "throws",
                                      output |-> EMPTY]
                 /\ failure' = Fail("verification", EXEC_ERR)
          ELSE IF OutputIsEmpty(output)
            THEN /\ calls' = calls \o which \o exec \o VerifyCatch(MSG_NO_VERSION)
                 /\ pc' = "FAILED"
                 /\ verifyAnswer' = [which |-> "ok", exec |-> "ok",
                                      output |-> output]
                 /\ failure' = Fail("verification", MSG_NO_VERSION)
          ELSE /\ calls' = calls \o which \o exec \o << Ev("info", MSG_SUCCESS) >>
               /\ pc' = "DONE"
               /\ verifyAnswer' = [which |-> "ok", exec |-> "ok",
                                    output |-> output]
               /\ failure' = failure
  /\ UNCHANGED <<inputVars, offRunVars, options, taskAlreadyInstalled, version,
                 latestTag, downloadUrl, extracted, installedPath, cachedPath,
                 restoreAnswer, saveAnswer, taskPath, whichStdout, fetchAnswer>>

Next ==
  \/ Setup
  \/ IsTaskInstalled
  \/ RestoreCache
  \/ InstallResolve
  \/ InstallDownload
  \/ InstallExtract
  \/ SaveCache
  \/ WhichPath
  \/ VerifyInstallation

Spec == Init /\ [][Next]_vars

\* A run whose external calls each return or throw: a step that can be taken
\* is taken.
SpecFair == Spec /\ WF_vars(Next)

\* getTaskOptions alone, on generated version files.
InitOptions == InitInputs(FilesWith(GeneratedFileContents)) /\ InitRun
NextOptions == Setup
SpecOptions == InitOptions /\ [][NextOptions]_vars

\* getTaskOptions and processEnvVars on the documented forms of 'vars'.
InitVars ==
  /\ versionInput \in VersionInputs
  /\ versionFromFile = EMPTY
  /\ versionFile = NoFile
  /\ skipCacheInput \in SkipCacheInputs
  /\ githubTokenInput \in GithubTokenInputs
  /\ varsInput \in DocumentedVars
  /\ platform \in Platforms
  /\ arch \in Archs
  /\ InitRun
NextVars == Setup
SpecVars == InitVars /\ [][NextVars]_vars

\* A run that installs without the cache, on generated extracted trees.
InitFind ==
  /\ versionInput = V3431
  /\ versionFromFile = EMPTY
  /\ versionFile = NoFile
  /\ skipCacheInput = TRUE_STR
  /\ githubTokenInput = EMPTY
  /\ varsInput = NoVars
  /\ platform \in {"linux", "win32"}
  /\ arch = "x64"
  /\ InitRun
NextFind ==
  \/ Setup
  \/ IsTaskInstalled
  \/ InstallResolve
  \/ InstallDownload
  \/ InstallExtractGenerated
  \/ WhichPath
  \/ VerifyInstallation
SpecFind == InitFind /\ [][NextFind]_vars

(***************************************************************************)
(* cache.ts saveCache and restoreCache on a file system and a cache        *)
(* backend, over several runs of one platform.  `disk`  holds the file at  *)
(* the path handed to saveCache and the file in the cache directory,       *)
(* `store` what the backend keeps under each key; `calls`, `saveAnswer`,   *)
(* `restoreAnswer` and `restored` are those of the last operation.         *)
(***************************************************************************)
CacheVersions == {V3431, LATEST}
Contents == {<<"task 3.43.1 binary">>, <<"task 3.44.0 binary">>}
Modes == {<<"644">>, <<"755">>}
INSTALLED == Join(EXTRACTED, ExecutableName)
DestPath == Join(getCacheDirectory, getTaskExecutableName)
FileAt(path) == IF path = DestPath THEN disk.cached ELSE disk.installed
StoredUnder(key) == {e \in store : e.key = key}

\* A file is at the path that will be handed to saveCache.
CachePlace ==
  /\ \E content \in Contents, mode \in Modes :
       disk' = [disk EXCEPT !.installed = File(content, mode)]
  /\ calls' = << >>
  /\ restoreAnswer' = NoAnswer
  /\ saveAnswer' = "none"
  /\ restored' = NoRestore
  /\ UNCHANGED <<inputVars, copying, pc, options, taskAlreadyInstalled, version,
                 latestTag, downloadUrl, extracted, installedPath, cachedPath,
                 taskPath, whichStdout, fetchAnswer, verifyAnswer, failure,
                 store, saved>>

CopiedFile_Skipped(path) == disk.cached

\* saveCache: the file in the cache directory after
\* 'if (taskPath !== destPath) fs.copyFileSync(taskPath, destPath)'.
CopiedFile(path) == IF path # DestPath THEN FileAt(path) ELSE disk.cached

\* saveCache(path, v): a missing source makes the copy throw; the backend
\* stores the cache directory under the key, or throws.
CacheSave ==
  /\ \E v \in CacheVersions, path \in {INSTALLED, DestPath},
        outcome \in SaveOutcomes :
       LET r == saveCache(path, v, outcome)
           key == getCacheKey(v)
           copied == CopiedFile(path)
       IN /\ outcome = "copyThrows" => path # DestPath
          /\ (path # DestPath /\ ~FileAt(path).present)
                => outcome \in {"mkdirThrows", "copyThrows"}
          /\ saveAnswer' = outcome
          /\ restoreAnswer' = NoAnswer
          /\ restored' = NoRestore
          /\ calls' = r.calls
          /\ disk' = IF outcome \in {"ok", "backendThrows"}
                        THEN [disk EXCEPT !.cached = copied]
                        ELSE disk
          /\ store' = IF outcome = "ok"
                        THEN (store \ StoredUnder(key))
                               \cup {[key |-> key, file |-> copied]}
                        ELSE store
          /\ saved' = IF outcome = "ok" /\ FileAt(path).present
                        THEN {e \in saved : e.key # key}
                               \cup {[key |-> key, content |-> FileAt(path).content]}
                      ELSE IF outcome = "ok"
                        THEN {e \in saved : e.key # key}
                      ELSE saved
  /\ UNCHANGED <<inputVars, copying, pc, options, taskAlreadyInstalled, version,
                 latestTag, downloadUrl, extracted, installedPath, cachedPath,
                 taskPath, whichStdout, fetchAnswer, verifyAnswer, failure>>

\* restoreCache: the mode after 'if (process.platform !== 'win32') chmodSync(path, '755')'.
RestoredMode(mode) == IF platform # "win32" THEN <<"755">> ELSE mode

\* restoreCache(v): the backend throws, misses, or puts what it keeps under
\* the key into the cache directory; the executable is then looked for and
\* made executable.
CacheRestore ==
  /\ \E v \in CacheVersions, up \in BOOLEAN, chmodOk \in BOOLEAN :
       LET hits == StoredUnder(getCacheKey(v))
           backend == IF ~up THEN "throws" ELSE IF hits = {} THEN "miss" ELSE "hit"
           snap == (CHOOSE e \in hits : TRUE).file
           landed == IF backend = "hit" /\ snap.present THEN snap ELSE disk.cached
           exists == backend = "hit" /\ landed.present
           a == [backend |-> backend, exists |-> exists,
                 chmodOk |-> chmodOk \/ ~exists \/ platform = "win32"]
           r == restoreCache(v, a.backend, a.exists, a.chmodOk)
       IN /\ restoreAnswer' = a
          /\ saveAnswer' = "none"
          /\ calls' = r.calls
          /\ disk' = IF exists /\ a.chmodOk
                        THEN [disk EXCEPT !.cached =
                                File(landed.content, RestoredMode(landed.mode))]
                        ELSE [disk EXCEPT !.cached = landed]
          /\ restored' = [done |-> TRUE, version |-> v, path |-> r.path]
  /\ UNCHANGED <<inputVars, copying, pc, options, taskAlreadyInstalled, version,
                 latestTag, downloadUrl, extracted, installedPath, cachedPath,
                 taskPath, whichStdout, fetchAnswer, verifyAnswer, failure,
                 store, saved>>

InitCache ==
  /\ versionInput = V3431
  /\ versionFromFile = EMPTY
  /\ versionFile = NoFile
  /\ skipCacheInput = <<"f", "a", "l", "s", "e">>
  /\ githubTokenInput = EMPTY
  /\ varsInput = NoVars
  /\ platform \in {"linux", "win32"}
  /\ arch = "x64"
  /\ InitRun
NextCache == CachePlace \/ CacheSave \/ CacheRestore
SpecCache == InitCache /\ [][NextCache]_vars

(***************************************************************************)
(* utils.ts copyDirRecursive, on one file system: a path is the sequence   *)
(* of its components, `dirs` the directories and `files` the files with    *)
(* their modes.  One step of the while loop takes one directory off the    *)
(* queue and goes through its entries.                                     *)
(***************************************************************************)
Names == <<"d", "f", "g", "x", "y", "z">>
DirCandidates == {<<"a">>, <<"a", "x">>, <<"a", "y">>, <<"a", "x", "z">>}
FileCandidates == {<<"a", "f">>, <<"a", "x", "g">>}
CopySources == {<<"a">>, <<"a", "x">>, <<"a", "f">>}
CopyDests == {<<"d">>, <<"e">>, <<"a", "d">>, <<"a", "x", "d">>}

Parent(p) == SubSeq(p, 1, Len(p) - 1)
Prefixes(p) == {SubSeq(p, 1, k) : k \in 1..Len(p)}

\* The file systems copyDirRecursive is called on: directories under "a" (or
\* none), files in them, and the directory "e" or not.
FileSystems ==
  UNION { UNION { {[dirs |-> D \cup E,
                    files |-> {[path |-> q, mode |-> m[q]] : q \in P}] :
                     m \in [P -> Modes], E \in {{}, {<<"e">>}}} :
                  P \in SUBSET {q \in FileCandidates : Parent(q) \in D} } :
          D \in {X \in SUBSET DirCandidates :
                   \A x \in X : Len(x) > 1 => Parent(x) \in X} }

Exists(fs, p) == p = << >> \/ p \in fs.dirs \/ \E f \in fs.files : f.path = p
IsFile(fs, p) == \E f \in fs.files : f.path = p
ModeOf(fs, p) == (CHOOSE f \in fs.files : f.path = p).mode
\* fs.mkdirSync(p, { recursive: true })
Mkdir(fs, p) == [fs EXCEPT !.dirs = @ \cup Prefixes(p)]
\* fs.copyFileSync(from, to), then fs.chmodSync(to, the mode of from)
CopyFile(fs, from, to) ==
  [fs EXCEPT !.files = {f \in @ : f.path # to}
                         \cup {[path |-> to, mode |-> ModeOf(fs, from)]}]
ENAMETOOLONG == <<"ENAMETOOLONG: name too long">>

\* fs.readdirSync(d, { withFileTypes: true })
ReadDir(fs, d) ==
  LET names == SelectSeq(Names, LAMBDA n : Exists(fs, Append(d, n)))
  IN [i \in 1..Len(names) |->
        [name |-> names[i], isDirectory |-> Append(d, names[i]) \in fs.dirs]]

\* The for loop over the entries of the directory `cur`, from entry i on.
RECURSIVE CopyEntries(_, _, _, _)
CopyEntries(st, cur, entries, i) ==
  IF i > Len(entries) THEN st
  ELSE LET srcPath == Append(cur.src, entries[i].name)
           destPath == Append(cur.dest, entries[i].name)
       IN IF Len(destPath) > MaxPathLen
            THEN [st EXCEPT !.error = ENAMETOOLONG]
          ELSE IF entries[i].isDirectory
            THEN CopyEntries(
                   [st EXCEPT !.fs = IF Exists(@, destPath) THEN @
                                     ELSE Mkdir(@, destPath),
                              !.queue = Append(@, [src |-> srcPath, dest |-> destPath])],
                   cur, entries, i + 1)
          ELSE CopyEntries([st EXCEPT !.fs = CopyFile(@, srcPath, destPath)],
                           cur, entries, i + 1)

\* copyDirRecursive(src, dest) up to the while loop.
CopyCall ==
  /\ copying.phase = "none"
  /\ \E fs \in FileSystems, src \in CopySources, dest \in CopyDests :
       LET base == [phase |-> "loop", src |-> src, dest |-> dest, fs0 |-> fs,
                    fs |-> fs, queue |-> << >>, dequeued |-> << >>,
                    error |-> EMPTY]
           fileDir == IF Exists(fs, Parent(dest)) THEN fs ELSE Mkdir(fs, Parent(dest))
           fileDest == IF dest \in fileDir.dirs
                         THEN Append(dest, src[Len(src)]) ELSE dest
       IN copying' =
            IF ~Exists(fs, src)
              THEN [base EXCEPT !.phase = "threw",
                                !.error = <<"Source directory does not exist: ">> \o src]
            ELSE IF IsFile(fs, src)
              THEN [base EXCEPT !.phase = "returned",
                                !.fs = CopyFile(fileDir, src, fileDest)]
            ELSE [base EXCEPT !.fs = IF Exists(fs, dest) THEN fs ELSE Mkdir(fs, dest),
                              !.queue = << [src |-> src, dest |-> dest] >>]
  /\ UNCHANGED <<inputVars, cacheVars, pc, options, taskAlreadyInstalled,
                 version, latestTag, downloadUrl, extracted, installedPath,
                 cachedPath, restoreAnswer, saveAnswer, taskPath, whichStdout,
                 fetchAnswer, verifyAnswer, failure, calls>>

\* One turn of the while loop.
CopyStep ==
  /\ copying.phase = "loop"
  /\ LET cur == Head(copying.queue)
         r == CopyEntries([fs |-> copying.fs, queue |-> Tail(copying.queue),
                           error |-> EMPTY],
                          cur, ReadDir(copying.fs, cur.src), 1)
     IN copying' = [copying EXCEPT
                      !.fs = r.fs,
                      !.queue = r.queue,
                      !.dequeued = Append(@, cur.src),
                      !.error = r.error,
                      !.phase = IF r.error # EMPTY THEN "threw"
                                ELSE IF r.queue = << >> THEN "returned"
                                ELSE "loop"]
  /\ UNCHANGED <<inputVars, cacheVars, pc, options, taskAlreadyInstalled,
                 version, latestTag, downloadUrl, extracted, installedPath,
                 cachedPath, restoreAnswer, saveAnswer, taskPath, whichStdout,
                 fetchAnswer, verifyAnswer, failure, calls>>

InitCopy == InitCache
NextCopy == CopyCall \/ CopyStep
SpecCopy == InitCopy /\ [][NextCopy]_vars

(***************************************************************************)
(* Properties.                                                             *)
(***************************************************************************)
EventsOf(op) == {calls[i] : i \in {j \in 1..Len(calls) : calls[j].op = op}}

\* r is s without its leading and trailing white space.
IsTrimOf(r, s) ==
  \E i \in 1..(Len(s) + 1), j \in 0..Len(s) :
    /\ i <= j + 1
    /\ r = SubSeq(s, i, j)
    /\ \A k \in 1..(i - 1) : s[k] \in {" ", "\t", "\n", "\r"}
    /\ \A k \in (j + 1)..Len(s) : s[k] \in {" ", "\t", "\n", "\r"}
    /\ r # << >> => r[1] \notin {" ", "\t", "\n", "\r"}
                      /\ r[Len(r)] \notin {" ", "\t", "\n", "\r"}

ConflictingInputs ==
  /\ versionFromFile # << >>
  /\ versionInput # << >>
  /\ versionInput # <<"l", "a", "t", "e", "s", "t">>

\* C1: with version-from-file set and version set to something other than
\* 'latest', the run does nothing but fail: it ends in FAILED with the conflict
\* message and no file read, export, probe, cache, fetch, download, addPath or
\* setOutput ever happens.
C1_ConflictFailsWithoutPartialExecution ==
  ConflictingInputs =>
    /\ pc \in {"start", "FAILED"}
    /\ pc = "start" => calls = << >>
    /\ pc = "FAILED" =>
         calls = << [op |-> "setFailed",
                     arg |-> <<"Task setup failed: ",
                               "Both version and version-from-file inputs cannot be used together. Please specify only one.">>,
                     opt |-> << >>] >>

C1_Witness == ConflictingInputs /\ pc = "FAILED" /\ Count("setFailed") = 1

FileOnlyInputs ==
  /\ versionFromFile # << >>
  /\ versionInput \in {<< >>, <<"l", "a", "t", "e", "s", "t">>}
  /\ versionFile.readable
  /\ \E k \in 1..Len(versionFile.content) :
        versionFile.content[k] \notin {" ", "\t", "\n", "\r"}

\* C2: with version-from-file set, version empty or 'latest' and a readable,
\* non-blank file, getTaskOptions succeeds, reads the file, and returns the
\* file content without its leading and trailing white space ("3.42.0\n" gives
\* "3.42.0"), whatever the version input is.
C2_VersionIsTrimmedFileContent ==
  (FileOnlyInputs /\ pc # "start") =>
    /\ pc = "probe"
    /\ Called("readFile")
    /\ IsTrimOf(options.version, versionFile.content)
    /\ versionFile.content = <<"3", ".", "4", "2", ".", "0", "\n">>
         => options.version = <<"3", ".", "4", "2", ".", "0">>

C2_Witness ==
  /\ FileOnlyInputs
  /\ pc = "probe"
  /\ versionInput = <<"l", "a", "t", "e", "s", "t">>
  /\ versionFile.content = <<"3", ".", "4", "2", ".", "0", "\n">>
  /\ options.version = <<"3", ".", "4", "2", ".", "0">>

ExplicitVersionInputs ==
  /\ versionFromFile = << >>
  /\ versionInput \notin {<< >>, <<"l", "a", "t", "e", "s", "t">>}

\* C3: an explicit version v (not 'latest', no version file) is used unchanged:
\* getTaskOptions returns v, the release index is never asked, installTask
\* downloads from RELEASES_URL/v<v>/..., so that 'v3.43.1' gives '/vv3.43.1/'.
C3_ExplicitVersionUnchanged ==
  ExplicitVersionInputs =>
    /\ pc # "start" => options.version = versionInput
    /\ ~Called("fetch")
    /\ pc \in {"download", "extract", "save"} => version = versionInput
    /\ \A e \in EventsOf("downloadTool") :
         /\ StartsWith(e.arg,
              <<"https://github.com/go-task/task/releases/download", "/", "v">>
                \o versionInput \o <<"/">>)
         /\ versionInput = <<"v", "3", ".", "4", "3", ".", "1">> =>
              Includes(e.arg, <<"/", "v", "v", "3", ".", "4", "3", ".", "1", "/">>)

C3_Witness ==
  /\ ExplicitVersionInputs
  /\ versionInput = <<"v", "3", ".", "4", "3", ".", "1">>
  /\ pc = "DONE"
  /\ \E e \in EventsOf("downloadTool") :
       Includes(e.arg, <<"/", "v", "v", "3", ".", "4", "3", ".", "1", "/">>)

MappedOS ==
  CASE platform = "win32" -> "windows"
    [] platform = "darwin" -> "darwin"
    [] platform = "linux" -> "linux"
    [] OTHER -> "?"

MappedArch ==
  CASE arch = "x64" -> "amd64"
    [] arch = "arm64" -> "arm64"
    [] arch = "arm" -> "arm"
    [] OTHER -> "?"

ExpectedExt ==
  IF platform = "win32" THEN <<"z", "i", "p">> ELSE <<"t", "a", "r", ".", "g", "z">>

\* C4: on every supported platform and architecture, the URL that is computed
\* and downloaded is exactly RELEASES_URL/v<version>/task_<os>_<arch>.<ext>,
\* with the mapped names and ext = zip exactly on win32; on any other platform
\* or architecture no URL is computed.
C4_DownloadUrlFormat ==
  LET expected ==
        <<"https://github.com/go-task/task/releases/download", "/", "v">>
          \o version \o <<"/", "task_", MappedOS, "_", MappedArch, ".">>
          \o ExpectedExt
      supported == platform \in {"win32", "darwin", "linux"}
                     /\ arch \in {"x64", "arm64", "arm"}
  IN /\ (supported /\ pc \in {"download", "extract", "save"}) =>
          downloadUrl = expected
     /\ downloadUrl # << >> => supported /\ downloadUrl = expected
     /\ \A e \in EventsOf("downloadTool") : e.arg = expected
     /\ (downloadUrl # << >> /\ EndsWith(downloadUrl, <<".", "z", "i", "p">>))
          <=> (downloadUrl # << >> /\ platform = "win32")

C4_Witness ==
  /\ platform = "win32"
  /\ arch = "x64"
  /\ version = <<"3", ".", "4", "3", ".", "1">>
  /\ \E e \in EventsOf("downloadTool") :
       e.arg = <<"https://github.com/go-task/task/releases/download", "/", "v",
                 "3", ".", "4", "3", ".", "1", "/", "task_", "windows", "_",
                 "amd64", ".", "z", "i", "p">>

\* The tag with one leading "v" removed, if it has one.
OneVRemoved(tag) ==
  IF tag # << >> /\ tag[1] = "v" THEN SubSeq(tag, 2, Len(tag)) ELSE tag

\* C5: for 'latest', the version downloaded is the release's tag_name with
\* exactly one leading 'v' removed, and the release-index request carries
\* 'Authorization: Bearer <token>' exactly when a non-empty token was given.
C5_LatestIsTagWithoutOneV ==
  /\ (pc # "start" /\ options.version = <<"l", "a", "t", "e", "s", "t">>
        /\ (Called("downloadTool") \/ pc = "download")) =>
       /\ latestTag # << >>
       /\ Called("fetch")
       /\ version = OneVRemoved(latestTag)
       /\ latestTag = <<"v", "3", ".", "4", "3", ".", "1">> =>
            version = <<"3", ".", "4", "3", ".", "1">>
       /\ latestTag = <<"v", "v", "3">> => version = <<"v", "3">>
       /\ latestTag = <<"3", ".", "4", "3", ".", "1">> => version = latestTag
       /\ StartsWith(downloadUrl,
            <<"https://github.com/go-task/task/releases/download", "/", "v">>
              \o OneVRemoved(latestTag) \o <<"/">>)
  /\ \A e \in EventsOf("fetch") :
       /\ e.arg = <<"https://api.github.com/repos/go-task/task/releases", "/latest">>
       /\ e.opt = IF githubTokenInput # << >>
                    THEN <<"Authorization", ": ", "Bearer ">> \o githubTokenInput
                    ELSE << >>

C5_Witness ==
  /\ options.version = <<"l", "a", "t", "e", "s", "t">>
  /\ latestTag = <<"v", "v", "3">>
  /\ version = <<"v", "3">>
  /\ githubTokenInput # << >>
  /\ Called("downloadTool")
  /\ \E e \in EventsOf("fetch") : e.opt # << >>

\* The warnings logged after the first call of op.
WarningsAfter(op) ==
  {calls[i] : i \in {j \in 1..Len(calls) :
                      j > IndexOf(op) /\ calls[j].op = "warning"}}

\* The state right after restoreCache returned.
C6_AfterRestore ==
  LET a == restoreAnswer
      usable == a.backend = "hit" /\ a.exists /\ (platform = "win32" \/ a.chmodOk)
      cachePath == <<"/", "tmp", "/", "task-runner", "/", "task">>
                     \o (IF platform = "win32" THEN <<".exe">> ELSE << >>)
  IN /\ pc \in {"install", "verify"}
     /\ ~Called("setFailed")
     /\ usable => cachedPath = cachePath /\ pc = "verify"
                    /\ WarningsAfter("restoreCache") = {}
     /\ ~usable => cachedPath = << >> /\ pc = "install"
     /\ a.backend = "miss" => WarningsAfter("restoreCache") = {}
     /\ (a.backend = "hit" /\ ~a.exists) =>
          \E w \in WarningsAfter("restoreCache") :
            w.arg = <<"Cache was hit but Task was not found at ">> \o cachePath
     /\ (a.backend = "throws" \/ ~a.chmodOk) =>
          \E w \in WarningsAfter("restoreCache") :
            StartsWith(w.arg, <<"Failed to restore from cache: ">>)

\* C6: restoreCache never throws and never aborts the run: it returns the
\* empty string on a miss, on a hit without the executable (with a warning)
\* and on any exception of the backend or the file system (with a warning),
\* and cacheDir/task (task.exe on win32) only on a hit with the executable.
C6_RestoreCacheNeverThrows == [][pc = "restore" => C6_AfterRestore']_vars

C6_Witness ==
  /\ restoreAnswer.backend = "hit"
  /\ ~restoreAnswer.exists
  /\ cachedPath = << >>
  /\ pc = "DONE"
  /\ \E w \in WarningsAfter("restoreCache") :
       StartsWith(w.arg, <<"Cache was hit but Task was not found at ">>)

\* The state right after saveCache returned.
C7_AfterSave ==
  /\ pc = "verify"
  /\ ~Called("setFailed")
  /\ Called("saveCache")
  /\ taskPath = installedPath
  /\ StartsWith(installedPath, <<"/", "runner", "/", "temp", "/", "extracted", "/">>)
  /\ ~StartsWith(installedPath, <<"/", "tmp", "/", "task-runner">>)
  /\ EventsOf("setOutput") =
       {[op |-> "setOutput", arg |-> <<"task-path">>, opt |-> installedPath]}
  /\ saveAnswer # "ok" =>
       \E w \in WarningsAfter("saveCache") :
         StartsWith(w.arg, <<"Failed to save Task to cache: ">>)

\* C7: saveCache never throws: a failure of mkdir, of the copy or of the
\* backend save is logged as a warning, the run still exports the installed
\* path (not the cache directory), goes on to verification, and a run that
\* ends in DONE after a failed save has called setFailed not once.
C7_SaveCacheNeverFailsTheRun ==
  /\ [][pc = "save" => C7_AfterSave']_vars
  /\ [][(pc = "verify" /\ saveAnswer \notin {"none", "ok"}) =>
          Count("getExecOutput")' = Count("getExecOutput") + 1]_vars
  /\ []((pc = "DONE" /\ saveAnswer \notin {"none", "ok"}) => ~Called("setFailed"))

C7_Witness ==
  /\ saveAnswer = "backendThrows"
  /\ pc = "DONE"
  /\ Count("setFailed") = 0
  /\ taskPath = installedPath
  /\ \E e \in EventsOf("setOutput") : e.opt = installedPath

\* C8: when 'which task' succeeds, nothing is resolved, restored, downloaded,
\* extracted or saved, whatever the requested version and skip-cache; the
\* exported task-path is the trimmed output of 'which task'.
C8_InstalledSkipsEverything ==
  taskAlreadyInstalled = "yes" =>
    /\ Ops(calls) \cap {"fetch", "restoreCache", "cache.restoreCache",
                         "downloadTool", "extractZip", "extractTar",
                         "saveCache", "cache.saveCache"} = {}
    /\ pc \in {"which", "verify", "DONE", "FAILED"}
    /\ version = << >> /\ downloadUrl = << >> /\ installedPath = << >>
    /\ \A e \in EventsOf("setOutput") :
         /\ e.arg = <<"task-path">>
         /\ IsTrimOf(e.opt, whichStdout)
    /\ pc \in {"verify", "DONE"} => Count("setOutput") = 1

C8_Witness ==
  /\ taskAlreadyInstalled = "yes"
  /\ pc = "DONE"
  /\ options.version = <<"3", ".", "4", "3", ".", "1">>
  /\ ~options.skipCache
  /\ whichStdout[Len(whichStdout)] = "\n"
  /\ \E e \in EventsOf("setOutput") : e.opt = <<"/", "usr", "/", "bin", "/", "task">>

\* C9: with skip-cache 'true' neither restoreCache nor saveCache nor the cache
\* backend is ever called; with any other value restoreCache is called in every
\* run that found Task not installed.
C9_SkipCacheDisablesCache ==
  /\ skipCacheInput = <<"t", "r", "u", "e">> =>
       Ops(calls) \cap {"restoreCache", "cache.restoreCache",
                        "saveCache", "cache.saveCache"} = {}
  /\ (skipCacheInput # <<"t", "r", "u", "e">> /\ taskAlreadyInstalled = "no"
        /\ pc # "restore") =>
       Called("restoreCache") /\ Called("cache.restoreCache")

C9_Witness ==
  /\ skipCacheInput = <<"t", "r", "u", "e">>
  /\ taskAlreadyInstalled = "no"
  /\ Called("downloadTool")
  /\ pc = "DONE"

\* C10: the version in the cache key of every backend restore and save is the
\* resolved version, never the sentinel 'latest': for 'latest' the release
\* index is asked before the cache restore.
C10_CacheKeyIsResolvedVersion ==
  \A e \in EventsOf("cache.restoreCache") \cup EventsOf("cache.saveCache") :
    /\ ~Includes(e.opt, <<"l", "a", "t", "e", "s", "t">>)
    /\ options.version = <<"l", "a", "t", "e", "s", "t">> =>
         Before("fetch", "cache.restoreCache")

\* C11: the version placed in the cache key and in the download URL never has
\* a leading 'v', whatever form the version input or the version file has.
C11_ResolvedVersionHasNoLeadingV ==
  /\ \A e \in EventsOf("downloadTool") :
       ~StartsWith(e.arg,
          <<"https://github.com/go-task/task/releases/download", "/", "v", "v">>)
  /\ \A e \in EventsOf("cache.restoreCache") \cup EventsOf("cache.saveCache") :
       ~StartsWith(e.opt, <<"task-runner-", "v">>)

BlankFileInputs ==
  /\ versionFromFile # << >>
  /\ versionInput \in {<< >>, <<"l", "a", "t", "e", "s", "t">>}
  /\ versionFile.readable
  /\ \A k \in 1..Len(versionFile.content) :
        versionFile.content[k] \in {" ", "\t", "\n", "\r"}

\* C12: a readable version file that is empty after trimming (empty, or white
\* space only) makes getTaskOptions return 'latest', and the empty string is
\* never the version of a cache key or of a download URL.
C12_BlankFileFallsBackToLatest ==
  /\ (BlankFileInputs /\ pc # "start") =>
       options.version = <<"l", "a", "t", "e", "s", "t">>
  /\ \A e \in EventsOf("downloadTool") :
       ~StartsWith(e.arg,
          <<"https://github.com/go-task/task/releases/download", "/", "v", "/">>)
  /\ \A e \in EventsOf("cache.restoreCache") \cup EventsOf("cache.saveCache") :
       ~StartsWith(e.opt, <<"task-runner-", "-">>)

UnsupportedPlatform ==
  platform \notin {"win32", "darwin", "linux"} \/ arch \notin {"x64", "arm64", "arm"}

\* C13: on a platform or architecture outside the mappings the run fails
\* before any network call: no release-index request, no cache-backend restore
\* and no download is ever made.
C13_UnsupportedFailsBeforeNetwork ==
  UnsupportedPlatform =>
    Ops(calls) \cap {"fetch", "cache.restoreCache", "downloadTool"} = {}

\* C14: a failed run has called core.setFailed exactly once.
C14_ExactlyOneFailureSignal ==
  pc = "FAILED" => Count("setFailed") = 1

BlankOutput ==
  \A k \in 1..Len(verifyAnswer.output) :
    verifyAnswer.output[k] \in {" ", "\t", "\n", "\r"}

\* C15: once 'which task' and 'task --version' have both succeeded, a
\* standard output that is empty after trimming ends the run FAILED with a
\* message containing 'No version returned', and any other output ends it
\* DONE without a failure signal.
C15_VerificationByOutput ==
  (verifyAnswer.which = "ok" /\ verifyAnswer.exec = "ok") =>
    IF BlankOutput
      THEN /\ pc = "FAILED"
           /\ Count("setFailed") = 1
           /\ \A e \in EventsOf("setFailed") :
                Includes(e.arg, <<"No version returned">>)
      ELSE /\ pc = "DONE"
           /\ ~Called("setFailed")
           /\ calls[Len(calls)].arg = <<"Task setup completed successfully!">>

C15_Witness ==
  /\ verifyAnswer.exec = "ok"
  /\ verifyAnswer.output = <<"\n">>
  /\ pc = "FAILED"
  /\ \E e \in EventsOf("setFailed") : Includes(e.arg, <<"No version returned">>)

HitWithoutExecutable == restoreAnswer.backend = "hit" /\ ~restoreAnswer.exists
TrueMiss == restoreAnswer.backend = "miss"

\* A call history without the warnings and the existsSync checks.
Unwarned(h) == SelectSeq(h, LAMBDA e : e.op \notin {"warning", "exists"})

\* The state restoreCache leaves, whether on a true miss or on a hit without
\* the executable: installTask is next, nothing is restored or exported, and
\* the calls made are those of a miss.
C16_AfterMiss ==
  /\ pc' = "install"
  /\ cachedPath' = << >>
  /\ taskPath' = taskPath
  /\ Unwarned(calls') = calls \o
       << [op |-> "restoreCache", arg |-> options.version, opt |-> << >>],
          [op |-> "cache.restoreCache",
           arg |-> <<"/", "tmp", "/", "task-runner">>,
           opt |-> <<"task-runner-">> \o options.version
                     \o <<"-", platform, "-", arch>>] >>
  /\ Len(calls') - Len(Unwarned(calls')) =
       Len(calls) - Len(Unwarned(calls)) + (IF TrueMiss' THEN 0 ELSE 2)
  /\ UNCHANGED <<inputVars, offRunVars, options, taskAlreadyInstalled, version,
                 latestTag, downloadUrl, extracted, installedPath, saveAnswer,
                 whichStdout, fetchAnswer, verifyAnswer, failure>>

\* What follows a miss of either kind: saveCache gets the installed path, the
\* installed path is the one exported, and a run that is past the install
\* has downloaded and extracted.
C16_AfterInstall ==
  (HitWithoutExecutable \/ TrueMiss) =>
    /\ \A e \in EventsOf("saveCache") :
         e.arg = installedPath /\ e.opt = options.version
    /\ \A e \in EventsOf("setOutput") :
         e.opt = installedPath /\ Called("saveCache")
    /\ pc \in {"save", "verify", "DONE"} =>
         /\ Called("downloadTool")
         /\ installedPath # << >>
    /\ pc \in {"verify", "DONE"} =>
         /\ Count("saveCache") = 1
         /\ taskPath = installedPath

SavedContents(v) ==
  {e.content : e \in {x \in saved : x.key = <<"task-runner-">> \o v
                                        \o <<"-", platform, "-", arch>>}}

\* The state restoreCache leaves when the key was saved and neither the
\* backend nor chmod threw.
C17_AfterRestore ==
  LET v == restored.version
      cachePath == <<"/", "tmp", "/", "task-runner", "/", "task">>
                     \o (IF platform = "win32" THEN <<".exe">> ELSE << >>)
  IN (restored.done /\ SavedContents(v) # {}
        /\ restoreAnswer.backend # "throws" /\ restoreAnswer.chmodOk) =>
       /\ restored.path = cachePath
       /\ disk.cached.present
       /\ disk.cached.content \in SavedContents(v)
       /\ platform # "win32" => disk.cached.mode = <<"755">>

\* C17: after a successful saveCache(path, version), restoreCache(version) on
\* the same platform and architecture returns cacheDir/task (task.exe on
\* win32), whose content is that of the file at path when it was saved and
\* whose mode, off Windows, is 0755.
C17_CacheRoundTrip == C17_AfterRestore

C17_Witness ==
  /\ restored.done
  /\ restored.path # << >>
  /\ platform = "linux"
  /\ Cardinality(saved) = 2
  /\ \E a \in saved, b \in saved : a.content # b.content
  /\ disk.cached.content \in SavedContents(restored.version)
  /\ disk.installed.content # disk.cached.content
  /\ disk.installed.mode = <<"644">>
  /\ disk.cached.mode = <<"755">>

\* findExecutable has run on the tree in `extracted`.
Searched ==
  \E e \in EventsOf("exists") :
    StartsWith(e.arg, <<"/", "runner", "/", "temp", "/", "extracted", "/">>)

ExeSuffix == <<"task">> \o (IF platform = "win32" THEN <<".exe">> ELSE << >>)
RootExe == <<"/", "runner", "/", "temp", "/", "extracted", "/">> \o ExeSuffix
ChildExe(i) ==
  <<"/", "runner", "/", "temp", "/", "extracted", "/", "entry", ToString(i), "/">>
    \o ExeSuffix

\* The path the run shows findExecutable returned p: it is installed, or its
\* chmod failed; EMPTY shows as the 'Executable not found' failure.
FoundIs(p) ==
  IF p = << >>
    THEN /\ pc = "FAILED"
         /\ installedPath = << >>
         /\ \E e \in EventsOf("setFailed") :
              Includes(e.arg, <<"Executable not found in extracted directory: ",
                                "/", "runner", "/", "temp", "/", "extracted">>)
    ELSE /\ ~\E e \in EventsOf("setFailed") :
               Includes(e.arg, <<"Executable not found in extracted directory: ">>)
         /\ \/ installedPath = p
            \/ /\ installedPath = << >>
               /\ pc = "FAILED"
               /\ \E e \in EventsOf("chmod") : e.arg = p

LookupFailed ==
  /\ fetchAnswer.kind # "none"
  /\ ~(fetchAnswer.kind = "json" /\ fetchAnswer.tag # << >>)

\* C19: when the version is 'latest' and the release-index lookup fails, for
\* whatever reason, the run is FAILED: nothing is downloaded, extracted or
\* saved to the cache, no path is exported, and the failure message tells to
\* specify a specific version instead of 'latest'.
C19_LookupFailureIsFatal ==
  LookupFailed =>
    /\ pc = "FAILED"
    /\ options.version = <<"l", "a", "t", "e", "s", "t">>
    /\ Ops(calls) \cap {"downloadTool", "extractZip", "extractTar", "saveCache",
                         "cache.saveCache", "addPath", "setOutput"} = {}
    /\ taskPath = << >>
    /\ Called("setFailed")
    /\ \A e \in EventsOf("setFailed") :
         Includes(e.arg,
           <<"Unable to retrieve the latest version. Please specify a specific version instead of 'latest'.">>)

C19_Witness ==
  /\ fetchAnswer.kind = "http"
  /\ restoreAnswer.backend = "miss"
  /\ pc = "FAILED"
  /\ Called("fetch")
  /\ ~Called("downloadTool")

\* C20: every message passed to core.setFailed includes the text of the
\* underlying cause, whether the version file was unreadable, the
\* release-index lookup failed, or the download, the extraction or the
\* verification failed.
C20_FailureMessagesIncludeCause ==
  (/\ pc = "FAILED"
   /\ failure.stage \in {"options", "lookup", "download", "extraction", "verification"}
   /\ failure.cause # << >>) =>
    /\ Called("setFailed")
    /\ \A e \in EventsOf("setFailed") : Includes(e.arg, failure.cause)

\* The message fetchLatestRelease rejects with, as installTask logs it.
LoggedLookupErrors ==
  {e.arg : e \in {x \in EventsOf("error") :
                    StartsWith(x.arg, <<"Failed to retrieve the latest version: ">>)}}

\* C21: fetchLatestRelease rejects, and returns no version, on a transport
\* failure, on a response that is not ok ('HTTP Error: <status> - <body>'),
\* on a body that is not JSON, and on JSON without a non-empty tag_name
\* ('Invalid response format or no releases found'); the message is always
\* 'Failed to fetch release information from <RELEASES_API_URL>: ' and the cause.
C21_FetchLatestReleaseRejects ==
  LET prefix == <<"Failed to retrieve the latest version: ",
                  "Failed to fetch release information from ",
                  "https://api.github.com/repos/go-task/task/releases", ": ">>
      cause == CASE fetchAnswer.kind = "transport" -> <<"fetch failed">>
                 [] fetchAnswer.kind = "http" ->
                      <<"HTTP Error: ", "403", " - ", "rate limit exceeded">>
                 [] fetchAnswer.kind = "badjson" ->
                      <<"Unexpected token < in JSON at position 0">>
                 [] OTHER -> <<"Invalid response format or no releases found">>
  IN /\ LookupFailed =>
          /\ version = << >>
          /\ latestTag = << >>
          /\ downloadUrl = << >>
          /\ LoggedLookupErrors = {prefix \o cause}
     /\ (fetchAnswer.kind # "none" /\ ~LookupFailed) => LoggedLookupErrors = {}

C21_Witness ==
  /\ fetchAnswer = [kind |-> "json", tag |-> << >>]
  /\ pc = "FAILED"
  /\ \E m \in LoggedLookupErrors :
       Includes(m, <<"Invalid response format or no releases found">>)

\* C22: given the documented YAML list [FOO=bar, BAZ=qux] as 'vars',
\* processEnvVars exports FOO with value 'bar' and BAZ with value 'qux', and
\* no variable of any other name.
C22_DocumentedListExportsPairs ==
  (varsInput.kind = "list" /\ pc = "probe") =>
    EventsOf("exportVariable") =
      { [op |-> "exportVariable", arg |-> <<"F", "O", "O">>, opt |-> <<"b", "a", "r">>],
        [op |-> "exportVariable", arg |-> <<"B", "A", "Z">>, opt |-> <<"q", "u", "x">>] }

\* d is the directory of path p: p is d, a separator and one last component.
IsDirOf(d, p) ==
  \E k \in 1..Len(p) :
    /\ p[k] = "/"
    /\ \A j \in (k + 1)..Len(p) : p[j] # "/"
    /\ k < Len(p)
    /\ d = SubSeq(p, 1, k - 1)

\* The positions in the call history of the calls of verifyInstallation's
\* 'task --version'.
VersionRuns ==
  {i \in 1..Len(calls) : calls[i].op = "exec" /\ calls[i].opt = <<"--version">>}

Exported == Called("addPath") /\ Called("setOutput")

\* C23: addPath and setOutput('task-path') are each called at most once,
\* only once an executable path is there (existing install, cache hit or
\* fresh install), addPath with the directory of the path given to setOutput
\* and right before it; verification starts only after both; a run that
\* fails before exports nothing, and one that fails in verification keeps
\* the export.
C23_PathExportedOnceBeforeVerification ==
  /\ Count("addPath") <= 1
  /\ Count("setOutput") <= 1
  /\ Called("addPath") <=> Called("setOutput")
  /\ Exported =>
       /\ taskPath # << >>
       /\ \/ taskAlreadyInstalled = "yes" /\ IsTrimOf(taskPath, whichStdout)
          \/ taskAlreadyInstalled = "no" /\ taskPath = cachedPath
          \/ taskAlreadyInstalled = "no" /\ taskPath = installedPath
       /\ \A e \in EventsOf("setOutput") :
            e.arg = <<"task-path">> /\ e.opt = taskPath
       /\ \A e \in EventsOf("addPath") : IsDirOf(e.arg, taskPath)
       /\ IndexOf("setOutput") = IndexOf("addPath") + 1
       /\ \A i \in VersionRuns : i > IndexOf("setOutput")
  /\ (pc \in {"verify", "DONE"} \/ verifyAnswer.which # "none") => Exported
  /\ (pc = "FAILED" /\ verifyAnswer.which = "none") => ~Exported /\ taskPath = << >>
  /\ ~Exported => VersionRuns = {} /\ verifyAnswer.which = "none"

C23_Witness ==
  /\ pc = "FAILED"
  /\ verifyAnswer.exec = "throws"
  /\ Exported
  /\ taskPath = cachedPath
  /\ \E e \in EventsOf("addPath") : e.arg = <<"/", "tmp", "/", "task-runner">>

\* The calls that installTask, and no other function, makes.
InstallOps == {"fetch", "downloadTool", "extractZip", "extractTar", "readdir", "stat"}

\* C24: with caching enabled and Task not installed, a non-empty path from
\* restoreCache means installTask and saveCache are never invoked and the
\* restored path is the one exported; the empty string means installTask is
\* invoked and, only after it returned a path, saveCache exactly once with
\* that path; saveCache is never invoked after a failed install.
C24_RestoreThenInstallThenSave ==
  /\ cachedPath # << >> =>
       /\ restoreAnswer.backend = "hit"
       /\ Ops(calls) \cap (InstallOps \cup {"saveCache", "cache.saveCache"}) = {}
       /\ pc \in {"verify", "DONE", "FAILED"}
       /\ installedPath = << >>
       /\ \A e \in EventsOf("setOutput") : e.opt = cachedPath
       /\ Count("setOutput") = 1
  /\ (restoreAnswer.backend # "none" /\ cachedPath = << >>) =>
       /\ pc \in {"install", "download", "extract", "save", "verify", "DONE", "FAILED"}
       /\ pc \in {"extract", "save", "verify", "DONE"} => Called("downloadTool")
       /\ pc \in {"verify", "DONE"} => Count("saveCache") = 1
       /\ pc = "save" => ~Called("saveCache") /\ installedPath # << >>
  /\ Count("saveCache") <= 1
  /\ Called("saveCache") =>
       /\ installedPath # << >>
       /\ restoreAnswer.backend # "none"
       /\ cachedPath = << >>
       /\ \A e \in EventsOf("saveCache") : e.arg = installedPath
       /\ \A i \in 1..Len(calls) :
            calls[i].op \in InstallOps => i < IndexOf("saveCache")
  /\ failure.stage \in {"lookup", "platform", "download", "extraction",
                         "notfound", "chmod"} =>
       /\ installedPath = << >>
       /\ ~Called("saveCache")
       /\ ~Called("cache.saveCache")

C24_Witness ==
  /\ restoreAnswer.backend = "miss"
  /\ failure.stage = "notfound"
  /\ ~Called("saveCache")
  /\ pc = "FAILED"

ExtractCalls == EventsOf("extractZip") \cup EventsOf("extractTar")

\* Archive names of several extensions, for the dispatch alone.
SampleExtensions ==
  { <<"z", "i", "p">>, <<"t", "a", "r", ".", "g", "z">>, <<"t", "g", "z">>,
    <<"t", "a", "r">>, <<"g", "z">>, <<"7", "z">> }

\* C25: installTask picks the zip extractor for a URL ending in '.zip', the
\* tar extractor for one ending in '.tar.gz', and fails on any other
\* extension; one extractor at most is invoked per install, only after the
\* download succeeded, and an extractor failure is rethrown as 'Extraction
\* failed. Error: <cause>', the cause's message kept.
C25_ExtractorByExtension ==
  /\ \A ext \in SampleExtensions :
       Extractor(<<"https://example.test/task_linux_amd64", ".">> \o ext) =
         (IF ext = <<"z", "i", "p">> THEN "extractZip"
          ELSE IF ext = <<"t", "a", "r", ".", "g", "z">> THEN "extractTar"
          ELSE "none")
  /\ Count("extractZip") + Count("extractTar") <= 1
  /\ ExtractCalls # {} =>
       /\ Count("downloadTool") = 1
       /\ failure.stage # "download"
       /\ \A e \in ExtractCalls :
            /\ e.arg = <<"/", "runner", "/", "temp", "/", "archive">>
            /\ e.op = "extractZip" <=>
                 EndsWith(ArgOf("downloadTool"), <<".", "z", "i", "p">>)
            /\ e.op = "extractTar" <=>
                 EndsWith(ArgOf("downloadTool"), <<".", "t", "a", "r", ".", "g", "z">>)
       /\ IndexOf("downloadTool") <
            (CHOOSE i \in 1..Len(calls) : calls[i] \in ExtractCalls)
  /\ installedPath # << >> => Cardinality(ExtractCalls) = 1
  /\ failure.stage = "download" => ExtractCalls = {}
  /\ failure.stage = "extraction" =>
       /\ pc = "FAILED"
       /\ installedPath = << >>
       /\ Called("setFailed")
       /\ \A e \in EventsOf("setFailed") :
            Includes(e.arg, <<"Extraction failed. Error: ",
                              "The process '/usr/bin/tar' failed with exit code 2">>)

C25_Witness ==
  /\ platform = "win32"
  /\ Called("extractZip")
  /\ failure.stage = "extraction"
  /\ pc = "FAILED"

\* Mode 755 was applied to path p before position i of the call history.
MadeExecutableBefore(p, i) ==
  \E j \in 1..(i - 1) :
    calls[j] = [op |-> "chmod", arg |-> p, opt |-> <<"755">>]

\* C26: off Windows, a path installTask or restoreCache returned has had mode
\* 0755 applied before; on win32 no permission is changed; a chmod failure
\* fails the install in installTask and is a cache miss in restoreCache.
C26_ExecutableBitApplied ==
  /\ platform = "win32" => ~Called("chmod")
  /\ (platform # "win32" /\ installedPath # << >>) =>
       MadeExecutableBefore(installedPath, Len(calls) + 1)
  /\ (platform # "win32" /\ cachedPath # << >>) =>
       MadeExecutableBefore(cachedPath, Len(calls) + 1)
  /\ (platform # "win32" /\ taskAlreadyInstalled = "no") =>
       \A i \in 1..Len(calls) :
         calls[i].op \in {"setOutput", "saveCache"} =>
           MadeExecutableBefore(IF calls[i].op = "setOutput" THEN calls[i].opt
                                ELSE calls[i].arg, i)
  /\ \A e \in EventsOf("chmod") : e.opt = <<"755">>
  /\ failure.stage = "chmod" =>
       /\ pc = "FAILED"
       /\ platform # "win32"
       /\ installedPath = << >>
       /\ Ops(calls) \cap {"saveCache", "addPath", "setOutput"} = {}
       /\ Called("setFailed")
  /\ (restoreAnswer.backend # "none" /\ ~restoreAnswer.chmodOk) =>
       /\ cachedPath = << >>
       /\ pc # "restore"
       /\ failure.stage # "restore"
       /\ \E w \in EventsOf("warning") :
            StartsWith(w.arg, <<"Failed to restore from cache: ">>)
       /\ pc = "FAILED" => failure.stage # "none" /\ Called("restoreCache")

C26_Witness ==
  /\ platform = "linux"
  /\ ~restoreAnswer.chmodOk
  /\ installedPath # << >>
  /\ Count("chmod") = 2
  /\ pc = "DONE"

\* C27: no external call is retried: the release-index fetch, the download,
\* the extraction, the cache-backend restore and the cache-backend save are
\* each invoked at most once in a run, and once the fetch, the download or
\* the extraction has failed, nothing more is downloaded, extracted or saved.
C27_NoRetries ==
  /\ Count("fetch") <= 1
  /\ Count("downloadTool") <= 1
  /\ Count("extractZip") + Count("extractTar") <= 1
  /\ Count("cache.restoreCache") <= 1
  /\ Count("cache.saveCache") <= 1
  /\ failure.stage \in {"lookup", "download", "extraction"} =>
       /\ pc = "FAILED"
       /\ ~Called("cache.saveCache")
       /\ ~Called("saveCache")
       /\ calls[Len(calls)].op = "setFailed"
  /\ failure.stage = "lookup" =>
       Ops(calls) \cap {"downloadTool", "extractZip", "extractTar"} = {}
  /\ failure.stage = "download" =>
       /\ Ops(calls) \cap {"extractZip", "extractTar"} = {}
       /\ \A i \in 1..Len(calls) :
            calls[i].op \in {"error", "setFailed"} => i > IndexOf("downloadTool")
  /\ failure.stage = "extraction" =>
       \A i \in 1..Len(calls) :
         calls[i].op \in {"error", "setFailed"} => i > IndexOf("downloadTool")

C27_Witness ==
  /\ failure.stage = "download"
  /\ Count("fetch") = 1
  /\ Count("cache.restoreCache") = 1
  /\ Count("downloadTool") = 1
  /\ pc = "FAILED"

\* C28: copyDirRecursive on a source directory takes each directory of the
\* source tree off its queue exactly once and returns with an empty queue,
\* the destination then holding a directory for every source directory and,
\* for every source file, a copy at the same relative path with the source
\* file's mode; on a source that does not exist it throws 'Source directory
\* does not exist: <src>' and creates and writes nothing.
C28_CopyDirRecursiveMirrors ==
  copying.phase # "none" =>
    LET c == copying
        srcDirs == {x \in c.fs0.dirs : StartsWith(x, c.src)}
        srcFiles == {f \in c.fs0.files : StartsWith(f.path, c.src)}
        Rebase(q) == c.dest \o SubSeq(q, Len(c.src) + 1, Len(q))
    IN /\ \A i \in 1..Len(c.dequeued) :
            /\ c.dequeued[i] \in srcDirs
            /\ \A j \in 1..Len(c.dequeued) : c.dequeued[i] = c.dequeued[j] => i = j
       /\ (c.phase = "returned" /\ c.src \in c.fs0.dirs) =>
            /\ c.queue = << >>
            /\ {c.dequeued[i] : i \in 1..Len(c.dequeued)} = srcDirs
            /\ \A x \in srcDirs : Rebase(x) \in c.fs.dirs
            /\ \A f \in srcFiles :
                 [path |-> Rebase(f.path), mode |-> f.mode] \in c.fs.files
       /\ c.phase = "threw" =>
            /\ c.src \notin c.fs0.dirs
            /\ \A f \in c.fs0.files : f.path # c.src
            /\ c.error = <<"Source directory does not exist: ">> \o c.src
            /\ c.fs = c.fs0

\* The entry of the extraction root with index i.
ChildDir(i) ==
  <<"/", "runner", "/", "temp", "/", "extracted", "/", "entry", ToString(i)>>

SearchErrors ==
  {e \in EventsOf("warning") :
     StartsWith(e.arg, <<"Error encountered while searching for executable. Error: ">>)}

\* C29: findExecutable never throws.  When, the root holding no executable,
\* readdirSync of the root throws, or statSync throws on an entry no child
\* directory holding the executable comes before, the error is logged as one
\* warning, no entry after that point is looked at, nothing is installed and
\* the run fails with 'Executable not found in extracted directory: <root>',
\* not with the error caught; and such a warning is logged in no other run.
C29_SearchErrorsAreCaught ==
  Searched =>
    LET t == extracted
        n == Len(t.entries)
        holders == {i \in 1..n : t.entries[i] = "dirExe"}
        throwing == {i \in 1..n : /\ t.entries[i] = "statThrows"
                                  /\ \A j \in holders : i < j}
        stop == IF t.readdir = "throws" THEN 0
                ELSE CHOOSE i \in throwing : \A j \in throwing : i <= j
        raised == ~t.direct /\ (t.readdir = "throws" \/ throwing # {})
        message == IF t.readdir = "throws" THEN READDIR_ERR ELSE STAT_ERR
    IN /\ raised <=> SearchErrors # {}
       /\ raised =>
            /\ Cardinality({i \in 1..Len(calls) : calls[i] \in SearchErrors}) = 1
            /\ \A e \in SearchErrors :
                 e.arg = <<"Error encountered while searching for executable. Error: ">>
                           \o message
            /\ \A e \in EventsOf("stat") \cup EventsOf("exists") :
                 \A i \in (stop + 1)..MaxEntries + 1 : ~StartsWith(e.arg, ChildDir(i))
            /\ t.readdir = "ok" => \E e \in EventsOf("stat") : e.arg = ChildDir(stop)
            /\ installedPath = << >>
            /\ pc = "FAILED"
            /\ failure.stage = "notfound"
            /\ \A e \in EventsOf("setFailed") :
                 /\ Includes(e.arg, <<"Executable not found in extracted directory: ",
                                      "/", "runner", "/", "temp", "/", "extracted">>)
                 /\ ~Includes(e.arg, message)
            /\ EventsOf("setFailed") # {}
            /\ EventsOf("chmod") = {}

C29_Witness ==
  /\ Searched
  /\ ~extracted.direct
  /\ extracted.entries = <<"statThrows", "dirExe">>
  /\ SearchErrors # {}
  /\ pc = "FAILED"
  /\ failure.stage = "notfound"

Terminal == pc \in {"DONE", "FAILED"}
\* Some continuation of the run reaches FAILED in one, two, three steps.
FailsNext == ENABLED (Next /\ pc' = "FAILED")
FailsWithin2 == FailsNext \/ ENABLED (Next /\ FailsNext')
FailsWithin3 == FailsWithin2 \/ ENABLED (Next /\ FailsWithin2')

\* C30: when every external call returns or throws, every run ends in DONE or
\* in FAILED and stays there; in DONE the success message is logged and
\* setFailed was never called, in FAILED setFailed was called; and from every
\* stage before the end some continuation of the run ends in FAILED.
C30_EveryRunEndsDoneOrFailed ==
  /\ <>[]Terminal
  /\ [](pc = "DONE" =>
          /\ ~Called("setFailed")
          /\ \E e \in EventsOf("info") : e.arg = MSG_SUCCESS)
  /\ [](pc = "FAILED" => Called("setFailed"))
  /\ [](~Terminal => FailsWithin3)
  /\ [][Terminal => UNCHANGED vars]_vars

C30_Witness ==
  /\ pc = "FAILED"
  /\ failure.stage = "verification"
  /\ Called("cache.saveCache")
  /\ Count("setFailed") = 1

====
